---- MODULE Spec2Model ----
(***************************************************************************)
(* Model of the journal site builder (src/driftnotes/build.py).            *)
(*                                                                         *)
(* Python strings are modelled as sequences of one-character strings, so   *)
(* that splitting, trimming, lower-casing, regular-expression matching and *)
(* date parsing are computed and not assumed.  A Python dict is modelled   *)
(* as a sequence of [key, val] records in insertion order.                 *)
(***************************************************************************)
EXTENDS Integers, Sequences, FiniteSets, TLC

VARIABLES
    text, parsed, ppc,              \* parse_month_file: file text, returned list, position
    entry, raw_entry, once, calls,  \* extract_meta: the entry dict, its first value, its value
                                    \* after the first call, number of calls made
    tag, slug, spc,                 \* slugify_tag: argument, result, position
    pc,                             \* main(): position in the run
    config_exists, tree,            \* file system: config file present, content tree
    made_dirs,                      \* directories created by mkdir
    cfg,                            \* main(): cfg
    entries_by_year,                \* main(): entries_by_year
    tag_index,                      \* main(): tag_index
    matches,                        \* build_on_this_day(): matches
    today,                          \* build_on_this_day(): today
    year_i,                         \* main(): index of the year page loop
    out,                            \* files written under output_dir, in write order
    stderr,                         \* lines printed to sys.stderr
    steps_left                      \* steps of main() after the indices that have not run yet,
                                    \* when they are run in an order of choice

vars == << text, parsed, ppc, entry, raw_entry, once, calls, tag, slug, spc,
           pc, config_exists, tree, made_dirs, cfg, entries_by_year, tag_index,
           matches, today, year_i, out, stderr, steps_left >>

parse_vars == << text, parsed, ppc >>
meta_vars  == << entry, raw_entry, once, calls >>
slug_vars  == << tag, slug, spc >>
main_vars  == << pc, config_exists, tree, made_dirs, cfg, entries_by_year, tag_index,
                 matches, today, year_i, out, stderr, steps_left >>

-----------------------------------------------------------------------------
(* Bounds of the inputs.                                                   *)

MaxLines    == 3    \* lines of a monthly file given to parse_month_file
MaxMetaLines == 3   \* lines of a raw body given to extract_meta
MaxTagLen   == 3    \* characters of a tag given to slugify_tag
MaxFiles    == 2    \* files of a content tree given to main

-----------------------------------------------------------------------------
(* Python str primitives, restricted to the characters of the inputs.      *)

Whitespace == {" ", "\t", "\n"}
Digits     == {"0", "1", "2", "3", "4", "5", "6", "7", "8", "9"}
UpperSeq   == << "A", "B", "C", "D", "E", "F", "G", "H", "I", "J", "K", "L", "M",
                 "N", "O", "P", "Q", "R", "S", "T", "U", "V", "W", "X", "Y", "Z" >>
LowerSeq   == << "a", "b", "c", "d", "e", "f", "g", "h", "i", "j", "k", "l", "m",
                 "n", "o", "p", "q", "r", "s", "t", "u", "v", "w", "x", "y", "z" >>
UpperCase  == {UpperSeq[i] : i \in 1..26}
LowerCase  == {LowerSeq[i] : i \in 1..26}

\* str.lower() on one character.
lower_char(c) ==
    IF c \in UpperCase THEN LowerSeq[CHOOSE i \in 1..26 : UpperSeq[i] = c] ELSE c

\* str.lower()
lower(s) == [i \in 1..Len(s) |-> lower_char(s[i])]

\* Number of consecutive characters of s, from index i on, that belong to S.
RECURSIVE RunLen(_, _, _)
RunLen(s, i, S) ==
    IF i <= Len(s) /\ s[i] \in S THEN 1 + RunLen(s, i + 1, S) ELSE 0

\* Number of consecutive characters of s, from index i backwards, that belong to S.
RECURSIVE RunLenBack(_, _, _)
RunLenBack(s, i, S) ==
    IF i >= 1 /\ s[i] \in S THEN 1 + RunLenBack(s, i - 1, S) ELSE 0

\* str.strip(chars): drop the leading and the trailing run of characters of S.
strip_chars(s, S) ==
    LET a == RunLen(s, 1, S)
        b == RunLenBack(s, Len(s), S)
    IN  IF a >= Len(s) THEN << >> ELSE SubSeq(s, a + 1, Len(s) - b)

\* str.strip()
strip(s) == strip_chars(s, Whitespace)

\* str.startswith(prefix)
startswith(s, prefix) ==
    Len(s) >= Len(prefix) /\ SubSeq(s, 1, Len(prefix)) = prefix

\* str.split(sep) for a one-character separator: empty pieces are kept.
RECURSIVE SplitFrom(_, _, _, _)
SplitFrom(s, sep, i, cur) ==
    IF i > Len(s) THEN << cur >>
    ELSE IF s[i] = sep THEN << cur >> \o SplitFrom(s, sep, i + 1, << >>)
    ELSE SplitFrom(s, sep, i + 1, Append(cur, s[i]))

split(s, sep) == SplitFrom(s, sep, 1, << >>)

\* str.splitlines(): split at line ends; a final line end opens no extra line.
splitlines(s) ==
    LET p == split(s, "\n")
    IN  IF p[Len(p)] = << >> THEN SubSeq(p, 1, Len(p) - 1) ELSE p

\* sep.join(pieces)
RECURSIVE join(_, _)
join(pieces, sep) ==
    IF pieces = << >> THEN << >>
    ELSE IF Len(pieces) = 1 THEN pieces[1]
    ELSE pieces[1] \o sep \o join(Tail(pieces), sep)

\* int() of a string of decimal digits.
digit_val(c) ==
    CASE c = "0" -> 0 [] c = "1" -> 1 [] c = "2" -> 2 [] c = "3" -> 3 [] c = "4" -> 4
      [] c = "5" -> 5 [] c = "6" -> 6 [] c = "7" -> 7 [] c = "8" -> 8 [] c = "9" -> 9

RECURSIVE to_int(_)
to_int(s) ==
    IF s = << >> THEN 0
    ELSE 10 * to_int(SubSeq(s, 1, Len(s) - 1)) + digit_val(s[Len(s)])

\* ord(c), for the characters that occur in the inputs.
char_ord(c) ==
    IF c \in Digits THEN 48 + digit_val(c)
    ELSE IF c \in UpperCase THEN 64 + (CHOOSE i \in 1..26 : UpperSeq[i] = c)
    ELSE IF c \in LowerCase THEN 96 + (CHOOSE i \in 1..26 : LowerSeq[i] = c)
    ELSE CASE c = "\t" -> 9 [] c = "\n" -> 10 [] c = " " -> 32 [] c = "!" -> 33
           [] c = "#" -> 35 [] c = "," -> 44 [] c = "-" -> 45 [] c = "." -> 46
           [] c = "/" -> 47 [] c = ":" -> 58 [] c = "_" -> 95

\* a < b for Python strings (lexicographic by code point).
RECURSIVE str_less(_, _)
str_less(a, b) ==
    IF b = << >> THEN FALSE
    ELSE IF a = << >> THEN TRUE
    ELSE IF a[1] = b[1] THEN str_less(Tail(a), Tail(b))
    ELSE char_ord(a[1]) < char_ord(b[1])

\* sorted(names) for a set of distinct strings.
RECURSIVE sorted(_)
sorted(S) ==
    IF S = {} THEN << >>
    ELSE LET m == CHOOSE x \in S : \A y \in S \ {x} : str_less(x, y)
         IN  << m >> \o sorted(S \ {m})

\* str.isdigit()
isdigit(s) == s # << >> /\ \A i \in 1..Len(s) : s[i] \in Digits

-----------------------------------------------------------------------------
(* ENTRY_HEADING_RE = ^(#{2,6})\s+(\d{4}-\d{2}-\d{2})\s*$                    *)

DateShape(d) ==
    /\ Len(d) = 10
    /\ \A i \in 1..10 : IF i \in {5, 8} THEN d[i] = "-" ELSE d[i] \in Digits

\* A heading pattern with one blank after the markers and nothing after the date.
ENTRY_HEADING_RE_one_space(line) ==
    LET h == RunLen(line, 1, {"#"})
        ok == /\ h >= 2 /\ h <= 6
              /\ Len(line) = h + 11
              /\ line[h + 1] = " "
              /\ DateShape(SubSeq(line, h + 2, h + 11))
    IN  IF ok THEN [ok |-> TRUE, hashes |-> h, date |-> SubSeq(line, h + 2, h + 11)]
        ELSE [ok |-> FALSE, hashes |-> 0, date |-> << >>]

\* ENTRY_HEADING_RE.match(line): [ok, hashes (length of group 1), date (group 2)].
\* The quantifiers are greedy and no two neighbouring parts of the pattern can
\* match the same character, so each part takes the whole run.
ENTRY_HEADING_RE(line) ==
    LET h == RunLen(line, 1, {"#"})
        w == RunLen(line, h + 1, Whitespace)
        d == h + w + 1
        t == RunLen(line, d + 10, Whitespace)
        ok == /\ h >= 2 /\ h <= 6
              /\ w >= 1
              /\ Len(line) >= d + 9
              /\ DateShape(SubSeq(line, d, d + 9))
              /\ d + 9 + t = Len(line)
    IN  IF ok THEN [ok |-> TRUE, hashes |-> h, date |-> SubSeq(line, d, d + 9)]
        ELSE [ok |-> FALSE, hashes |-> 0, date |-> << >>]

-----------------------------------------------------------------------------
(* parse_month_file                                                        *)

\* current_date = None is the empty string here: a matched date has ten characters.
None == << >>

\* content_md of a flushed entry: "\n".join(current_lines).strip()
FlushBody(current_lines) == strip(join(current_lines, << "\n" >>))

\* The {date, heading_level, content_md} dict appended at a flush.
FlushEntry(st) ==
    [ date          |-> st.current_date,
      heading_level |-> IF st.current_level = 0 THEN 2 ELSE st.current_level,
      content_md    |-> FlushBody(st.current_lines) ]

\* One iteration of `for line in lines`, where a flush resets current_lines even
\* before the first heading.
ParseLineResetAlways(st, line) ==
    LET m == ENTRY_HEADING_RE(line)
    IN  IF m.ok
        THEN [ entries       |-> IF st.current_date # None
                                 THEN Append(st.entries, FlushEntry(st))
                                 ELSE st.entries,
               current_lines |-> << >>,
               current_level |-> m.hashes,
               current_date  |-> m.date ]
        ELSE IF startswith(line, << "#", " " >>) /\ st.current_date = None
             THEN st
             ELSE [st EXCEPT !.current_lines = Append(@, line)]

\* One iteration of `for line in lines`.
ParseLine(st, line) ==
    LET m == ENTRY_HEADING_RE(line)
    IN  IF m.ok
        THEN [ entries       |-> IF st.current_date # None
                                 THEN Append(st.entries, FlushEntry(st))
                                 ELSE st.entries,
               current_lines |-> IF st.current_date # None
                                 THEN << >>
                                 ELSE st.current_lines,
               current_level |-> m.hashes,
               current_date  |-> m.date ]
        ELSE IF startswith(line, << "#", " " >>) /\ st.current_date = None
             THEN st
             ELSE [st EXCEPT !.current_lines = Append(@, line)]

RECURSIVE ParseLoop(_, _)
ParseLoop(st, lines) ==
    IF lines = << >> THEN st ELSE ParseLoop(ParseLine(st, lines[1]), Tail(lines))

\* The flush after the loop, left out.
ParseEndNoFlush(st) == st.entries

\* The flush after the loop.
ParseEnd(st) ==
    IF st.current_date # None THEN Append(st.entries, FlushEntry(st)) ELSE st.entries

parse_month_file(file_text) ==
    ParseEnd(ParseLoop([ entries |-> << >>, current_date |-> None,
                         current_level |-> 0, current_lines |-> << >> ],
                       splitlines(file_text)))

-----------------------------------------------------------------------------
(* extract_meta                                                            *)

TagsPrefix  == << "t", "a", "g", "s", ":" >>
DraftPrefix == << "d", "r", "a", "f", "t", ":" >>

\* ("true", "yes", "1", "y", "on")
TruthyValues ==
    { << "t", "r", "u", "e" >>, << "y", "e", "s" >>, << "1" >>, << "y" >>, << "o", "n" >> }

\* [t.strip() for t in tag_str.split(",") if t.strip()]
RECURSIVE StripNonEmpty(_)
StripNonEmpty(pieces) ==
    IF pieces = << >> THEN << >>
    ELSE LET t == strip(pieces[1])
         IN  (IF t # << >> THEN << t >> ELSE << >>) \o StripNonEmpty(Tail(pieces))

\* tags of a "tags:" line (stripped[5:].strip(), split at commas)
TagsOfLine(stripped) ==
    StripNonEmpty(split(strip(SubSeq(stripped, 6, Len(stripped))), ","))

\* draft of a "draft:" line
DraftOfLine(stripped) ==
    lower(strip(SubSeq(stripped, 7, Len(stripped)))) \in TruthyValues

\* A scan that goes on reading tags:/draft: lines behind the line where the
\* body starts.
RECURSIVE MetaScanPastStop(_, _, _, _)
MetaScanPastStop(lines, i, tags, draft) ==
    IF i >= Len(lines) THEN [tags |-> tags, draft |-> draft, body_start |-> 0]
    ELSE LET stripped == strip(lines[i + 1])
             lowered  == lower(stripped)
             rest     == MetaScanPastStop(lines, i + 1, tags, draft)
         IN  IF stripped = << >>
             THEN [tags |-> rest.tags, draft |-> rest.draft, body_start |-> i + 1]
             ELSE IF startswith(lowered, TagsPrefix)
             THEN MetaScanPastStop(lines, i + 1, TagsOfLine(stripped), draft)
             ELSE IF startswith(lowered, DraftPrefix)
             THEN MetaScanPastStop(lines, i + 1, tags, DraftOfLine(stripped))
             ELSE [tags |-> rest.tags, draft |-> rest.draft, body_start |-> i]

\* A scan whose body starts one line too late behind a blank line.
RECURSIVE MetaScanSkipsAfterBlank(_, _, _, _)
MetaScanSkipsAfterBlank(lines, i, tags, draft) ==
    IF i >= Len(lines) THEN [tags |-> tags, draft |-> draft, body_start |-> 0]
    ELSE LET stripped == strip(lines[i + 1])
             lowered  == lower(stripped)
         IN  IF stripped = << >>
             THEN [tags |-> tags, draft |-> draft, body_start |-> i + 2]
             ELSE IF startswith(lowered, TagsPrefix)
             THEN MetaScanSkipsAfterBlank(lines, i + 1, TagsOfLine(stripped), draft)
             ELSE IF startswith(lowered, DraftPrefix)
             THEN MetaScanSkipsAfterBlank(lines, i + 1, tags, DraftOfLine(stripped))
             ELSE [tags |-> tags, draft |-> draft, body_start |-> i]

\* The scan `for i, line in enumerate(lines)`, from the 0-based index i:
\* [tags, draft, body_start].  body_start keeps its initial 0 when no break is taken.
RECURSIVE MetaScan(_, _, _, _)
MetaScan(lines, i, tags, draft) ==
    IF i >= Len(lines) THEN [tags |-> tags, draft |-> draft, body_start |-> 0]
    ELSE LET stripped == strip(lines[i + 1])
             lowered  == lower(stripped)
         IN  IF stripped = << >>
             THEN [tags |-> tags, draft |-> draft, body_start |-> i + 1]
             ELSE IF startswith(lowered, TagsPrefix)
             THEN MetaScan(lines, i + 1, TagsOfLine(stripped), draft)
             ELSE IF startswith(lowered, DraftPrefix)
             THEN MetaScan(lines, i + 1, tags, DraftOfLine(stripped))
             ELSE [tags |-> tags, draft |-> draft, body_start |-> i]

\* extract_meta where tags and draft start from the values the entry already has.
extract_meta_keep_flags(e) ==
    LET lines == splitlines(e.content_md)
        r     == MetaScan(lines, 0,
                          IF "tags" \in DOMAIN e THEN e.tags ELSE << >>,
                          IF "draft" \in DOMAIN e THEN e.draft ELSE FALSE)
        body  == strip(join(SubSeq(lines, r.body_start + 1, Len(lines)), << "\n" >>))
    IN  [ date          |-> e.date,
          heading_level |-> e.heading_level,
          content_md    |-> body,
          tags          |-> r.tags,
          draft         |-> r.draft ]

\* extract_meta(entry): the entry with content_md, tags and draft assigned.
\* Fields the entry already has (date, heading_level) are kept.
extract_meta(e) ==
    LET lines == splitlines(e.content_md)
        r     == MetaScan(lines, 0, << >>, FALSE)
        body  == strip(join(SubSeq(lines, r.body_start + 1, Len(lines)), << "\n" >>))
    IN  [ date          |-> e.date,
          heading_level |-> e.heading_level,
          content_md    |-> body,
          tags          |-> r.tags,
          draft         |-> r.draft ]

-----------------------------------------------------------------------------
(* slugify_tag                                                             *)

\* re.sub(r"[\s_]+", "-", s): every maximal run of S becomes one "-".
RECURSIVE SubRuns(_, _, _)
SubRuns(s, i, S) ==
    IF i > Len(s) THEN << >>
    ELSE IF s[i] \in S
         THEN << "-" >> \o SubRuns(s, i + RunLen(s, i, S), S)
         ELSE << s[i] >> \o SubRuns(s, i + 1, S)

\* re.sub(r"[^a-z0-9-]", "", s)
DropOutside(s) == SelectSeq(s, LAMBDA c : c \in LowerCase \cup Digits \cup {"-"})

\* re.sub(r"-{2,}", "-", s)
CollapseHyphens(s) == SubRuns(s, 1, {"-"})

\* slugify_tag without the collapse of repeated hyphens.
slugify_tag_no_collapse(t) ==
    LET s1 == lower(strip(t))
        s2 == SubRuns(s1, 1, Whitespace \cup {"_"})
        s3 == DropOutside(s2)
        s4 == strip_chars(s3, {"-"})
    IN  IF s4 = << >> THEN << "t", "a", "g" >> ELSE s4

slugify_tag(t) ==
    LET s1 == lower(strip(t))
        s2 == SubRuns(s1, 1, Whitespace \cup {"_"})
        s3 == DropOutside(s2)
        s4 == strip_chars(CollapseHyphens(s3), {"-"})
    IN  IF s4 = << >> THEN << "t", "a", "g" >> ELSE s4

-----------------------------------------------------------------------------
(* Dates, sorting and dicts.                                               *)

DaysInMonth(y, m) ==
    IF m \in {4, 6, 9, 11} THEN 30
    ELSE IF m = 2
         THEN (IF (y % 4 = 0 /\ y % 100 # 0) \/ y % 400 = 0 THEN 29 ELSE 28)
         ELSE 31

\* datetime.strptime(d, "%Y-%m-%d") on a string of the heading's date shape:
\* [ok, dt]; ok = FALSE stands for the ValueError.
strptime(d) ==
    LET y  == to_int(SubSeq(d, 1, 4))
        m  == to_int(SubSeq(d, 6, 7))
        dd == to_int(SubSeq(d, 9, 10))
    IN  [ ok |-> y >= 1 /\ m >= 1 /\ m <= 12 /\ dd >= 1 /\ dd <= DaysInMonth(y, m),
          dt |-> << y, m, dd >> ]

\* a < b for datetimes
dt_less(a, b) ==
    \/ a[1] < b[1]
    \/ a[1] = b[1] /\ a[2] < b[2]
    \/ a[1] = b[1] /\ a[2] = b[2] /\ a[3] < b[3]

\* dt.strftime("%m-%d")
month_day(dt) == << dt[2], dt[3] >>

\* Reversed list.
reversed(list) == [i \in 1..Len(list) |-> list[Len(list) + 1 - i]]

\* Insert x into a list that is sorted in the wanted direction, behind every
\* element that does not have to follow it (so equal keys keep their order).
RECURSIVE SortInsert(_, _, _)
SortInsert(list, x, reverse) ==
    IF list = << >> THEN << x >>
    ELSE IF (IF reverse THEN dt_less(list[1]._dt, x._dt) ELSE dt_less(x._dt, list[1]._dt))
         THEN << x >> \o list
         ELSE << list[1] >> \o SortInsert(Tail(list), x, reverse)

RECURSIVE StableSort(_, _)
StableSort(list, reverse) ==
    IF list = << >> THEN << >>
    ELSE SortInsert(StableSort(SubSeq(list, 1, Len(list) - 1), reverse),
                    list[Len(list)], reverse)

\* A sort whose reverse direction is the ascending result turned around, which
\* turns around the entries of one date as well.
sort_by_dt_flip(list, reverse) ==
    IF reverse THEN reversed(StableSort(list, FALSE)) ELSE StableSort(list, FALSE)

\* list.sort(key=lambda x: x["_dt"], reverse=reverse): stable in both directions.
sort_by_dt(list, reverse) == StableSort(list, reverse)

\* dict operations; a dict is a sequence of [key, val] in insertion order.
dict_keys(d) == [i \in 1..Len(d) |-> d[i].key]

dict_has(d, k) == \E i \in 1..Len(d) : d[i].key = k

\* A lookup that returns the value of the first key whatever key is asked for.
dict_get_first(d, k) == d[1].val

dict_get(d, k) == d[CHOOSE i \in 1..Len(d) : d[i].key = k].val

\* All values of a dict of lists, concatenated in dict order.
RECURSIVE dict_concat(_)
dict_concat(d) == IF d = << >> THEN << >> ELSE d[1].val \o dict_concat(Tail(d))

-----------------------------------------------------------------------------
(* The content tree: [files: set of [dir, name, text], plain: names of the  *)
(* regular files directly under content_root].                             *)

endswith(s, suffix) ==
    Len(s) >= Len(suffix) /\ SubSeq(s, Len(s) - Len(suffix) + 1, Len(s)) = suffix

\* content_root.iterdir(), sorted
iterdir_sorted(t) == sorted({f.dir : f \in t.files} \cup t.plain)

is_dir(t, name) == name \in {f.dir : f \in t.files}

\* sorted(year_dir.glob("*.md"))
glob_md_sorted(t, dir) ==
    sorted({f.name : f \in {g \in t.files : g.dir = dir /\ endswith(g.name, << ".", "m", "d" >>)}})

read_text(t, dir, name) == (CHOOSE f \in t.files : f.dir = dir /\ f.name = name).text

path_join(dir, name) == dir \o << "/" >> \o name

-----------------------------------------------------------------------------
(* collect_entries_by_year                                                 *)

\* `for e in parse_month_file(md_file)` where the draft test is left out.
RECURSIVE EntryLoopNoFilter(_, _, _, _, _)
EntryLoopNoFilter(acc, es, md_file, year, include_drafts) ==
    IF es = << >> \/ ~acc.ok THEN acc
    ELSE LET e == extract_meta(es[1])
             d == strptime(e.date)
         IN  IF ~d.ok THEN [ok |-> FALSE, list |-> acc.list]
             ELSE EntryLoopNoFilter(
                      [ ok   |-> TRUE,
                        list |-> Append(acc.list,
                                   [ date          |-> e.date,
                                     heading_level |-> e.heading_level,
                                     content_md    |-> e.content_md,
                                     tags          |-> e.tags,
                                     draft         |-> e.draft,
                                     _dt           |-> d.dt,
                                     source_file   |-> md_file,
                                     year          |-> year ]) ],
                      Tail(es), md_file, year, include_drafts)

\* `for e in parse_month_file(md_file)`: acc = [ok, list = year_entries]; ok = FALSE
\* once strptime has raised.
RECURSIVE EntryLoop(_, _, _, _, _)
EntryLoop(acc, es, md_file, year, include_drafts) ==
    IF es = << >> \/ ~acc.ok THEN acc
    ELSE LET e == extract_meta(es[1])
             d == strptime(e.date)
         IN  IF e.draft /\ ~include_drafts
             THEN EntryLoop(acc, Tail(es), md_file, year, include_drafts)
             ELSE IF ~d.ok THEN [ok |-> FALSE, list |-> acc.list]
             ELSE EntryLoop(
                      [ ok   |-> TRUE,
                        list |-> Append(acc.list,
                                   [ date          |-> e.date,
                                     heading_level |-> e.heading_level,
                                     content_md    |-> e.content_md,
                                     tags          |-> e.tags,
                                     draft         |-> e.draft,
                                     _dt           |-> d.dt,
                                     source_file   |-> md_file,
                                     year          |-> year ]) ],
                      Tail(es), md_file, year, include_drafts)

\* `for md_file in sorted(year_dir.glob("*.md"))`
RECURSIVE FileLoop(_, _, _, _, _)
FileLoop(acc, names, t, year, include_drafts) ==
    IF names = << >> \/ ~acc.ok THEN acc
    ELSE FileLoop(EntryLoop(acc, parse_month_file(read_text(t, year, names[1])),
                            path_join(year, names[1]), year, include_drafts),
                  Tail(names), t, year, include_drafts)

\* `for year_dir in sorted(content_root.iterdir())`, where a year without entries
\* gets an empty bucket.
RECURSIVE YearLoopKeepEmpty(_, _, _, _, _)
YearLoopKeepEmpty(acc, names, t, order, include_drafts) ==
    IF names = << >> \/ ~acc.ok THEN acc
    ELSE IF ~is_dir(t, names[1]) \/ ~isdigit(names[1])
    THEN YearLoopKeepEmpty(acc, Tail(names), t, order, include_drafts)
    ELSE LET r == FileLoop([ok |-> TRUE, list |-> << >>],
                           glob_md_sorted(t, names[1]), t, names[1], include_drafts)
         IN  IF ~r.ok THEN [ok |-> FALSE, val |-> acc.val]
             ELSE YearLoopKeepEmpty(
                      [ ok  |-> TRUE,
                        val |-> Append(acc.val,
                                  [ key |-> names[1],
                                    val |-> sort_by_dt(r.list, order = "reverse") ]) ],
                      Tail(names), t, order, include_drafts)

\* `for year_dir in sorted(content_root.iterdir())`: acc = [ok, val = entries_by_year]
RECURSIVE YearLoop(_, _, _, _, _)
YearLoop(acc, names, t, order, include_drafts) ==
    IF names = << >> \/ ~acc.ok THEN acc
    ELSE IF ~is_dir(t, names[1]) \/ ~isdigit(names[1])
    THEN YearLoop(acc, Tail(names), t, order, include_drafts)
    ELSE LET r == FileLoop([ok |-> TRUE, list |-> << >>],
                           glob_md_sorted(t, names[1]), t, names[1], include_drafts)
         IN  IF ~r.ok THEN [ok |-> FALSE, val |-> acc.val]
             ELSE IF r.list = << >>
             THEN YearLoop(acc, Tail(names), t, order, include_drafts)
             ELSE YearLoop(
                      [ ok  |-> TRUE,
                        val |-> Append(acc.val,
                                  [ key |-> names[1],
                                    val |-> sort_by_dt(r.list, order = "reverse") ]) ],
                      Tail(names), t, order, include_drafts)

\* collect_entries_by_year(content_root, order, include_drafts): [ok, val]; ok = FALSE
\* when the ValueError of strptime leaves the function.
collect_entries_by_year(t, order, include_drafts) ==
    YearLoop([ok |-> TRUE, val |-> << >>], iterdir_sorted(t), t, order, include_drafts)

-----------------------------------------------------------------------------
(* build_tag_index                                                         *)

\* The body of `for tag in e.get("tags") or []`, where a later spelling replaces
\* the name of the bucket.
TagMapAddLastName(tag_map, t, e) ==
    LET s == slugify_tag(t)
    IN  IF dict_has(tag_map, s)
        THEN [ i \in 1..Len(tag_map) |->
                 IF tag_map[i].key = s
                 THEN [ key |-> s,
                        val |-> [ name    |-> t,
                                  entries |-> Append(tag_map[i].val.entries, e) ] ]
                 ELSE tag_map[i] ]
        ELSE Append(tag_map, [key |-> s, val |-> [name |-> t, entries |-> << e >>]])

\* The body of `for tag in e.get("tags") or []`
TagMapAdd(tag_map, t, e) ==
    LET s == slugify_tag(t)
    IN  IF dict_has(tag_map, s)
        THEN [ i \in 1..Len(tag_map) |->
                 IF tag_map[i].key = s
                 THEN [ key |-> s,
                        val |-> [ name    |-> tag_map[i].val.name,
                                  entries |-> Append(tag_map[i].val.entries, e) ] ]
                 ELSE tag_map[i] ]
        ELSE Append(tag_map, [key |-> s, val |-> [name |-> t, entries |-> << e >>]])

\* `for tag in e.get("tags") or []`
RECURSIVE TagLoop(_, _, _)
TagLoop(tag_map, tags, e) ==
    IF tags = << >> THEN tag_map
    ELSE TagLoop(TagMapAdd(tag_map, tags[1], e), Tail(tags), e)

\* `for e in entries`, over the entries of all years in dict order
RECURSIVE TagEntryLoop(_, _)
TagEntryLoop(tag_map, entries) ==
    IF entries = << >> THEN tag_map
    ELSE TagEntryLoop(TagLoop(tag_map, entries[1].tags, entries[1]), Tail(entries))

\* The final loop, where the buckets follow the direction of the year buckets.
SortBucketsAsGiven(tag_map) == tag_map

\* `for slug, data in tag_map.items(): data["entries"].sort(..., reverse=True)`
SortBuckets(tag_map) ==
    [ i \in 1..Len(tag_map) |->
        [ key |-> tag_map[i].key,
          val |-> [ name    |-> tag_map[i].val.name,
                    entries |-> sort_by_dt(tag_map[i].val.entries, TRUE) ] ] ]

build_tag_index(by_year) == SortBuckets(TagEntryLoop(<< >>, dict_concat(by_year)))

-----------------------------------------------------------------------------
(* build_on_this_day: the matches list                                     *)

\* The matches in the order in which the YearIndex holds them, without the sort.
on_this_day_matches_unsorted(by_year, day) ==
    SelectSeq(dict_concat(by_year), LAMBDA e : month_day(e._dt) = month_day(day))

\* matches after `matches.sort(key=lambda x: x["_dt"], reverse=True)`
on_this_day_matches(by_year, day) ==
    sort_by_dt(SelectSeq(dict_concat(by_year),
                         LAMBDA e : month_day(e._dt) = month_day(day)),
               TRUE)

-----------------------------------------------------------------------------
(* Rendering.  A page is the record of the parts the renderer computes; the   *)
(* markdown conversion of a body is not modelled, an article carries its    *)
(* entry.                                                                   *)

HtmlExt         == << ".", "h", "t", "m", "l" >>
IndexPath       == << "i", "n", "d", "e", "x", ".", "h", "t", "m", "l" >>
RssPath         == << "r", "s", "s", ".", "x", "m", "l" >>
OnThisDayPath   == << "o", "n", "-", "t", "h", "i", "s", "-", "d", "a", "y", ".", "h", "t", "m", "l" >>
TagsPath        == << "t", "a", "g", "s", ".", "h", "t", "m", "l" >>
TagDir          == << "t", "a", "g" >>
CSS_FILENAME    == << "s", "t", "y", "l", "e", ".", "c", "s", "s" >>
LUNR_JS_FILENAME == << "l", "u", "n", "r", ".", "j", "s" >>
SEARCH_JS_FILENAME == << "s", "e", "a", "r", "c", "h", ".", "j", "s" >>
THEME_JS_FILENAME == << "t", "h", "e", "m", "e", ".", "j", "s" >>
SEARCH_INDEX_FILENAME == << "s", "e", "a", "r", "c", "h", "_", "i", "n", "d", "e", "x", ".", "j", "s", "o", "n" >>

\* max(2, min(6, level))
clamp_level(level) == IF level < 2 THEN 2 ELSE IF level > 6 THEN 6 ELSE level

\* A render_entry whose tag links are built from the tag as written.
render_entry_href_from_name(e, link_tags) ==
    [ id        |-> e.date,
      level     |-> clamp_level(e.heading_level),
      permalink |-> << "#" >> \o e.date,
      entry     |-> e,
      pills     |-> [ i \in 1..Len(e.tags) |->
                        [ label |-> e.tags[i],
                          href  |-> IF link_tags
                                    THEN TagDir \o << "/" >> \o lower(e.tags[i]) \o HtmlExt
                                    ELSE << >> ] ] ]

\* render_entry(entry, link_tags=...)
render_entry(e, link_tags) ==
    [ id        |-> e.date,
      level     |-> clamp_level(e.heading_level),
      permalink |-> << "#" >> \o e.date,
      entry     |-> e,
      pills     |-> [ i \in 1..Len(e.tags) |->
                        [ label |-> e.tags[i],
                          href  |-> IF link_tags
                                    THEN TagDir \o << "/" >> \o slugify_tag(e.tags[i]) \o HtmlExt
                                    ELSE << >> ] ] ]

render_entries(entries, link_tags) ==
    [i \in 1..Len(entries) |-> render_entry(entries[i], link_tags)]

\* The sidebar: `for y in sorted(years, reverse=True)`
year_links(years, active) ==
    [ i \in 1..Len(years) |->
        LET y == years[Len(years) + 1 - i]
        IN  [href |-> y \o HtmlExt, label |-> y, active |-> y = active] ]

\* A renderer that gives the index page the title and heading of the year page.
render_year_page_as_copy(year, years, entries, c, is_index) ==
    [ page_title   |-> c.site_title \o << " ", "-", " " >> \o year,
      main_heading |-> year,
      year_links   |-> year_links(years, year),
      search_ui    |-> c.enable_search,
      order_text   |-> c.order,
      articles     |-> render_entries(entries, TRUE) ]

\* render_year_page(year, years, entries, cfg, is_index=...)
render_year_page(year, years, entries, c, is_index) ==
    [ page_title   |-> IF is_index THEN c.site_title
                       ELSE c.site_title \o << " ", "-", " " >> \o year,
      main_heading |-> IF is_index THEN << "L", "a", "t", "e", "s", "t", " ", "e", "n", "t", "r", "i", "e", "s", " ", "-", " " >> \o year ELSE year,
      year_links   |-> year_links(years, year),
      search_ui    |-> c.enable_search,
      order_text   |-> c.order,
      articles     |-> render_entries(entries, TRUE) ]

\* render_on_this_day_page(today_label, years, entries, cfg); the label is the
\* month and day of today.
render_on_this_day_page(label, years, entries, c) ==
    [ page_title   |-> c.site_title \o << " ", "-", " ", "O", "n", " ", "t", "h", "i", "s", " ", "d", "a", "y" >>,
      today_label  |-> label,
      year_links   |-> year_links(years, << >>),
      no_matches   |-> entries = << >>,
      articles     |-> render_entries(entries, TRUE) ]

\* render_tag_page(tag_name, tag_slug, years, entries, cfg)
render_tag_page(tag_name, tag_slug, years, entries, c) ==
    [ page_title   |-> c.site_title \o << " ", "-", " ", "T", "a", "g", ":", " " >> \o tag_name,
      main_heading |-> tag_name,
      year_links   |-> year_links(years, << >>),
      articles     |-> render_entries(entries, FALSE) ]

\* sorted(tag_index.items(), key=lambda kv: kv[1]["name"].lower()): stable
RECURSIVE InsertByName(_, _)
InsertByName(list, x) ==
    IF list = << >> THEN << x >>
    ELSE IF str_less(lower(x.val.name), lower(list[1].val.name))
         THEN << x >> \o list
         ELSE << list[1] >> \o InsertByName(Tail(list), x)

RECURSIVE sorted_by_name(_)
sorted_by_name(items) ==
    IF items = << >> THEN << >>
    ELSE InsertByName(sorted_by_name(SubSeq(items, 1, Len(items) - 1)), items[Len(items)])

\* render_tag_index_page(tag_index, years, cfg)
render_tag_index_page(tags, years, c) ==
    [ page_title   |-> c.site_title \o << " ", "-", " ", "T", "a", "g", "s" >>,
      year_links   |-> year_links(years, << >>),
      tag_items    |-> LET srt == sorted_by_name(tags)
                       IN  [ i \in 1..Len(srt) |->
                               [ href  |-> TagDir \o << "/" >> \o srt[i].key \o HtmlExt,
                                 name  |-> srt[i].val.name,
                                 count |-> Len(srt[i].val.entries) ] ] ]

\* (cfg.get("site_url") or "").rstrip("/") and the link built from it
site_link(c, path) ==
    LET site_url == SubSeq(c.site_url, 1,
                           Len(c.site_url) - RunLenBack(c.site_url, Len(c.site_url), {"/"}))
    IN  IF site_url # << >> THEN site_url \o << "/" >> \o path ELSE path

\* The document generate_rss writes (lastBuildDate, the clock, is left out).
rss_document(latest_year, entries, c) ==
    [ channel_title |-> c.site_title \o << " ", "-", " " >> \o latest_year,
      channel_link  |-> site_link(c, latest_year \o HtmlExt),
      items         |-> [ i \in 1..Len(entries) |->
                            [ title   |-> entries[i].date \o << " ", "-", " " >> \o c.site_title,
                              link    |-> site_link(c, latest_year \o HtmlExt \o << "#" >>
                                                       \o entries[i].date),
                              pubDate |-> entries[i]._dt,
                              entry   |-> entries[i] ] ] ]

\* One document of build_search_index.
search_doc(year, e, c) ==
    [ id       |-> year \o << "-" >> \o e.date,
      year     |-> year,
      date     |-> e.date,
      url      |-> year \o HtmlExt \o << "#" >> \o e.date,
      full_url |-> site_link(c, year \o HtmlExt \o << "#" >> \o e.date),
      title    |-> e.date,
      text     |-> strip(join(e.tags, << " " >>) \o << " " >> \o e.content_md),
      entry    |-> e ]

\* The documents of a build that indexes the first year of the YearIndex only.
search_docs_first_year(by_year, c) ==
    IF by_year = << >> THEN << >>
    ELSE [i \in 1..Len(by_year[1].val) |-> search_doc(by_year[1].key, by_year[1].val[i], c)]

\* `for year, entries in entries_by_year.items(): for e in entries: docs.append(...)`
RECURSIVE search_docs(_, _)
search_docs(by_year, c) ==
    IF by_year = << >> THEN << >>
    ELSE [i \in 1..Len(by_year[1].val) |-> search_doc(by_year[1].key, by_year[1].val[i], c)]
         \o search_docs(Tail(by_year), c)

-----------------------------------------------------------------------------
(* Sample inputs.                                                          *)

\* All sequences over S of length at most n.
SeqsUpTo(S, n) == UNION {[1..k -> S] : k \in 0..n}

Hashes(n) == [i \in 1..n |-> "#"]

Date_2024_03_10 == << "2", "0", "2", "4", "-", "0", "3", "-", "1", "0" >>
Date_2023_03_10 == << "2", "0", "2", "3", "-", "0", "3", "-", "1", "0" >>
Date_2024_03_11 == << "2", "0", "2", "4", "-", "0", "3", "-", "1", "1" >>
Date_2024_13_45 == << "2", "0", "2", "4", "-", "1", "3", "-", "4", "5" >>

\* Lines of monthly files: headings the pattern accepts, near misses, a title
\* line, a blank line and text lines.
ParseLineSamples ==
    { Hashes(2) \o << " " >> \o Date_2024_03_10,
      Hashes(3) \o << " " >> \o Date_2023_03_10,
      Hashes(2) \o << " ", " " >> \o Date_2024_03_11 \o << " " >>,
      Hashes(7) \o << " " >> \o Date_2024_03_10,
      Hashes(2) \o Date_2024_03_10,
      Hashes(2) \o << " ", "2", "0", "2", "4", "-", "3", "-", "1", "0" >>,
      << "#", " " >> \o Date_2024_03_10,
      << "#", " ", "T" >>,
      << >>,
      << "x" >>,
      << " ", "y", " " >> }

ParseTexts == {join(ls, << "\n" >>) : ls \in SeqsUpTo(ParseLineSamples, MaxLines)}

\* Lines of raw bodies: metadata lines in several spellings, a blank line, text.
MetaLineSamples ==
    { << "t", "a", "g", "s", ":", " ", "a", ",", " ", "B" >>,
      << "T", "A", "G", "S", ":", "b", ",", "," >>,
      << "d", "r", "a", "f", "t", ":", " ", "t", "r", "u", "e" >>,
      << " ", "D", "r", "a", "f", "t", ":", " ", "O", "N", " " >>,
      << "d", "r", "a", "f", "t", ":", " ", "n", "o" >>,
      << >>,
      << "x" >> }

\* Raw bodies as parse_month_file returns them: joined lines, trimmed.
MetaBodies ==
    {strip(join(ls, << "\n" >>)) : ls \in SeqsUpTo(MetaLineSamples, MaxMetaLines)}

TagAlphabet == {"A", "a", "1", " ", "_", "-", "!"}

OutdoorTrips == << "O", "u", "t", "d", "o", "o", "r", " ", "T", "r", "i", "p", "s" >>
OutdoorTripsAlt ==
    << "o", "u", "t", "d", "o", "o", "r", "-", "-", "t", "r", "i", "p", "s", " " >>

TagSamples == SeqsUpTo(TagAlphabet, MaxTagLen) \cup {OutdoorTrips, OutdoorTripsAlt}

\* Monthly files of the content trees.
Lines(ls) == join(ls, << "\n" >>)

\* A title, a draft of 2024-03-11 tagged c, and two entries of 2024-03-10, the
\* first tagged "A b".
TextDraftAndTie ==
    Lines(<< << "#", " ", "T" >>,
             Hashes(2) \o << " " >> \o Date_2024_03_11,
             << "d", "r", "a", "f", "t", ":", " ", "t", "r", "u", "e" >>, << "t", "a", "g", "s", ":", " ", "c" >>, << "y" >>,
             Hashes(3) \o << " " >> \o Date_2024_03_10,
             << "t", "a", "g", "s", ":", " ", "A", " ", "b" >>, << "x" >>,
             Hashes(2) \o << " " >> \o Date_2024_03_10,
             << "u" >> >>)

\* An entry of 2023-03-10 with two tags of one slug, and an entry of 2024-03-10.
TextTwoYears ==
    Lines(<< Hashes(2) \o << " " >> \o Date_2023_03_10,
             << "t", "a", "g", "s", ":", " ", "a", "_", "b", ",", " ", "A", " ", " ", "b" >>, << "z" >>,
             Hashes(2) \o << " " >> \o Date_2024_03_10,
             << >>, << "w" >> >>)

\* Nothing but a draft.
TextOnlyDraft ==
    Lines(<< Hashes(2) \o << " " >> \o Date_2024_03_11, << "D", "r", "a", "f", "t", ":", " ", "Y", "E", "S" >>, << "q" >> >>)

\* A draft with a date that is no calendar date, and an entry of 2023-03-10.
TextBadDateDraft ==
    Lines(<< Hashes(2) \o << " " >> \o Date_2024_13_45, << "d", "r", "a", "f", "t", ":", " ", "o", "n" >>, << "p" >>,
             Hashes(2) \o << " " >> \o Date_2023_03_10, << "t", "a", "g", "s", ":", " ", "c" >>, << "v" >> >>)

\* An entry with a date that is no calendar date.
TextBadDate ==
    Lines(<< Hashes(2) \o << " " >> \o Date_2024_13_45, << "b" >> >>)

TextSamples ==
    {TextDraftAndTie, TextTwoYears, TextOnlyDraft, TextBadDateDraft, TextBadDate}

Dir2023 == << "2", "0", "2", "3" >>
Dir2024 == << "2", "0", "2", "4" >>
Dir999  == << "9", "9", "9" >>
DirSite == << "_", "s", "i", "t", "e" >>
File01  == << "0", "1", ".", "m", "d" >>
File02  == << "0", "2", ".", "m", "d" >>

\* The places where a tree may have a monthly file.
Slots == { << Dir2023, File01 >>, << Dir2024, File01 >>, << Dir2024, File02 >>,
           << Dir999, File01 >> }

\* What every sample tree has besides: a directory whose name is no number, a file
\* of a year directory that is no .md file, and a regular file with a number as name.
ExtraFiles ==
    { [dir |-> DirSite, name |-> File01, text |-> TextTwoYears],
      [dir |-> Dir2024, name |-> << "n", ".", "t", "x", "t" >>, text |-> TextTwoYears] }

ExtraPlain == { << "2", "0", "2", "5" >> }

\* The trees with at most MaxFiles monthly files in the slots.
TreeSamples ==
    UNION { { [ files |-> ExtraFiles \cup
                          {[dir |-> sl[1], name |-> sl[2], text |-> a[sl]] : sl \in D},
                plain |-> ExtraPlain ] : a \in [D -> TextSamples] }
            : D \in {X \in SUBSET Slots : Cardinality(X) <= MaxFiles} }

\* The configurations load_config may return (the options the model reads).
ConfigSamples ==
    [ site_title      : { << "J" >> },
      site_url        : { << >> },
      order           : {"reverse", "chronological"},
      latest_as_index : BOOLEAN,
      enable_search   : BOOLEAN,
      include_drafts  : BOOLEAN ]

\* The dates date.today() may return.
TodaySamples == { << 2025, 3, 10 >>, << 2025, 3, 11 >> }

-----------------------------------------------------------------------------
(* Values of the variables a specification does not use.                   *)

IdleParse == text = << >> /\ parsed = << >> /\ ppc = "idle"

IdleMeta  == entry = << >> /\ raw_entry = << >> /\ once = << >> /\ calls = 0

IdleSlug  == tag = << >> /\ slug = << >> /\ spc = "idle"

IdleMain  ==
    /\ pc = "idle" /\ config_exists = FALSE /\ tree = {} /\ made_dirs = {}
    /\ cfg = << >> /\ entries_by_year = << >> /\ tag_index = << >>
    /\ matches = << >> /\ today = << >> /\ year_i = 1 /\ out = << >>
    /\ stderr = << >> /\ steps_left = {}

-----------------------------------------------------------------------------
(* Specification of parse_month_file on every sample text.                 *)

InitParse ==
    /\ text \in ParseTexts
    /\ parsed = << >>
    /\ ppc = "start"
    /\ IdleMeta /\ IdleSlug /\ IdleMain

ParseFile ==
    /\ ppc = "start"
    /\ parsed' = parse_month_file(text)
    /\ ppc' = "done"
    /\ UNCHANGED << text, meta_vars, slug_vars, main_vars >>

NextParse == ParseFile

SpecParse == InitParse /\ [][NextParse]_vars

-----------------------------------------------------------------------------
(* Specification of extract_meta, called twice on every sample body.       *)

InitMeta ==
    /\ \E body \in MetaBodies :
          entry = [date |-> Date_2024_03_10, heading_level |-> 2, content_md |-> body]
    /\ raw_entry = entry
    /\ once = entry
    /\ calls = 0
    /\ IdleParse /\ IdleSlug /\ IdleMain

ExtractMeta ==
    /\ calls < 2
    /\ entry' = extract_meta(entry)
    /\ once' = IF calls = 0 THEN entry' ELSE once
    /\ calls' = calls + 1
    /\ UNCHANGED << raw_entry, parse_vars, slug_vars, main_vars >>

NextMeta == ExtractMeta

SpecMeta == InitMeta /\ [][NextMeta]_vars

-----------------------------------------------------------------------------
(* Specification of slugify_tag on every sample tag.                       *)

InitSlug ==
    /\ tag \in TagSamples
    /\ slug = << >>
    /\ spc = "start"
    /\ IdleParse /\ IdleMeta /\ IdleMain

SlugifyTag ==
    /\ spc = "start"
    /\ slug' = slugify_tag(tag)
    /\ spc' = "done"
    /\ UNCHANGED << tag, parse_vars, meta_vars, main_vars >>

NextSlug == SlugifyTag

SpecSlug == InitSlug /\ [][NextSlug]_vars

-----------------------------------------------------------------------------
(* Specification of main(): one run of the build on every sample tree.     *)

OutputDir == << "_", "s", "i", "t", "e" >>

\* sorted(entries_by_year.keys())
years_of(by_year) == sorted({by_year[i].key : i \in 1..Len(by_year)})

latest_year_of(by_year) == years_of(by_year)[Len(years_of(by_year))]

written(path, content) == [path |-> path, content |-> content]

Init ==
    /\ pc = "start"
    /\ config_exists \in BOOLEAN
    /\ tree \in TreeSamples
    /\ made_dirs = {}
    /\ cfg = << >>
    /\ entries_by_year = << >>
    /\ tag_index = << >>
    /\ matches = << >>
    /\ today = << >>
    /\ year_i = 1
    /\ out = << >>
    /\ stderr = << >>
    /\ steps_left = {}
    /\ IdleParse /\ IdleMeta /\ IdleSlug

\* cfg = load_config(config_path)
LoadConfig ==
    /\ pc = "start"
    /\ IF config_exists
       THEN /\ cfg' \in ConfigSamples
            /\ pc' = "mkdir"
            /\ UNCHANGED stderr
       ELSE /\ stderr' = Append(stderr, "Config file not found")
            /\ pc' = "exit_1"
            /\ UNCHANGED cfg
    /\ UNCHANGED << config_exists, tree, made_dirs, entries_by_year, tag_index, matches,
                    today, year_i, out, parse_vars, meta_vars, slug_vars, steps_left >>

\* A main() that writes the theme script as soon as the output directory exists.
MakeOutputDirAndAsset ==
    /\ pc = "mkdir"
    /\ made_dirs' = made_dirs \cup {<< "_", "s", "i", "t", "e" >>}
    /\ out' = Append(out, [path |-> THEME_JS_FILENAME, content |-> [script |-> THEME_JS_FILENAME]])
    /\ pc' = "collect"
    /\ UNCHANGED << config_exists, tree, cfg, entries_by_year, tag_index, matches,
                    today, year_i, stderr, parse_vars, meta_vars, slug_vars, steps_left >>

\* output_dir.mkdir(parents=True, exist_ok=True)
MakeOutputDir ==
    /\ pc = "mkdir"
    /\ made_dirs' = made_dirs \cup {OutputDir}
    /\ pc' = "collect"
    /\ UNCHANGED << config_exists, tree, cfg, entries_by_year, tag_index, matches,
                    today, year_i, out, stderr, parse_vars, meta_vars, slug_vars, steps_left >>

\* entries_by_year = collect_entries_by_year(...); the ValueError of strptime is
\* caught nowhere and ends the process.
CollectEntries ==
    /\ pc = "collect"
    /\ LET r == collect_entries_by_year(tree, cfg.order, cfg.include_drafts)
       IN  IF r.ok
           THEN /\ entries_by_year' = r.val
                /\ pc' = "check"
                /\ UNCHANGED stderr
           ELSE /\ stderr' = Append(stderr, "ValueError")
                /\ pc' = "raised"
                /\ UNCHANGED entries_by_year
    /\ UNCHANGED << config_exists, tree, made_dirs, cfg, tag_index, matches,
                    today, year_i, out, parse_vars, meta_vars, slug_vars, steps_left >>

\* A main() that goes on whatever collect_entries_by_year returned.
CheckEntriesNoExit ==
    /\ pc = "check"
    /\ pc' = "tag_index"
    /\ UNCHANGED << config_exists, tree, made_dirs, cfg, entries_by_year, tag_index,
                    matches, today, year_i, out, stderr, parse_vars, meta_vars, slug_vars, steps_left >>

\* if not entries_by_year: print("No entries found."); sys.exit(1)
CheckEntries ==
    /\ pc = "check"
    /\ IF entries_by_year = << >>
       THEN /\ stderr' = Append(stderr, "No entries found.")
            /\ pc' = "exit_1"
       ELSE /\ pc' = "tag_index"
            /\ UNCHANGED stderr
    /\ UNCHANGED << config_exists, tree, made_dirs, cfg, entries_by_year, tag_index,
                    matches, today, year_i, out, parse_vars, meta_vars, slug_vars, steps_left >>

\* A main() that goes on to the assets without building the TagIndex.
BuildTagIndexSkipped ==
    /\ pc = "tag_index"
    /\ pc' = "copy_css"
    /\ UNCHANGED << config_exists, tree, made_dirs, cfg, entries_by_year, tag_index, matches,
                    today, year_i, out, stderr, parse_vars, meta_vars, slug_vars, steps_left >>

\* A build_tag_index whose newest-first sort is applied to the year buckets
\* themselves as well as to the tag buckets.
BuildTagIndexSortsYearIndex ==
    /\ pc = "tag_index"
    /\ tag_index' = build_tag_index(entries_by_year)
    /\ entries_by_year' = [i \in 1..Len(entries_by_year) |->
                             [key |-> entries_by_year[i].key,
                              val |-> sort_by_dt(entries_by_year[i].val, TRUE)]]
    /\ pc' = "copy_css"
    /\ UNCHANGED << config_exists, tree, made_dirs, cfg, matches,
                    today, year_i, out, stderr, parse_vars, meta_vars, slug_vars, steps_left >>

\* tag_index = build_tag_index(entries_by_year)
BuildTagIndex ==
    /\ pc = "tag_index"
    /\ tag_index' = build_tag_index(entries_by_year)
    /\ pc' = "copy_css"
    /\ UNCHANGED << config_exists, tree, made_dirs, cfg, entries_by_year, matches,
                    today, year_i, out, stderr, parse_vars, meta_vars, slug_vars, steps_left >>

\* A copy_css that ends the run when the stylesheet is missing.
CopyCssOrExit ==
    /\ pc = "copy_css"
    /\ \E exists \in BOOLEAN :
          IF exists
          THEN /\ out' = Append(out, [path |-> CSS_FILENAME, content |-> [copy_of |-> CSS_FILENAME]])
               /\ pc' = "copy_search_js"
               /\ UNCHANGED stderr
          ELSE /\ stderr' = Append(stderr, "WARNING: CSS file not found")
               /\ pc' = "exit_1"
               /\ UNCHANGED out
    /\ UNCHANGED << config_exists, tree, made_dirs, cfg, entries_by_year, tag_index,
                    matches, today, year_i, parse_vars, meta_vars, slug_vars, steps_left >>

\* copy_css(output_dir); whether the file exists is read from the file system.
CopyCss ==
    /\ pc = "copy_css"
    /\ \E exists \in BOOLEAN :
          IF exists
          THEN /\ out' = Append(out, written(CSS_FILENAME, [copy_of |-> CSS_FILENAME]))
               /\ UNCHANGED stderr
          ELSE /\ stderr' = Append(stderr, "WARNING: CSS file not found")
               /\ UNCHANGED out
    /\ pc' = "copy_search_js"
    /\ UNCHANGED << config_exists, tree, made_dirs, cfg, entries_by_year, tag_index,
                    matches, today, year_i, parse_vars, meta_vars, slug_vars, steps_left >>

\* copy_search_js(cfg, output_dir): lunr.js, then search.js
CopySearchJs ==
    /\ pc = "copy_search_js"
    /\ IF ~cfg.enable_search
       THEN UNCHANGED << out, stderr >>
       ELSE \E present \in SUBSET {LUNR_JS_FILENAME, SEARCH_JS_FILENAME} :
               LET names == << LUNR_JS_FILENAME, SEARCH_JS_FILENAME >>
                   here  == SelectSeq(names, LAMBDA n : n \in present)
                   gone  == SelectSeq(names, LAMBDA n : n \notin present)
               IN  /\ out' = out \o [i \in 1..Len(here) |->
                                        written(here[i], [copy_of |-> here[i]])]
                   /\ stderr' = stderr \o [i \in 1..Len(gone) |->
                                              "WARNING: Search JS file not found"]
    /\ pc' = "theme_js"
    /\ UNCHANGED << config_exists, tree, made_dirs, cfg, entries_by_year, tag_index,
                    matches, today, year_i, parse_vars, meta_vars, slug_vars, steps_left >>

\* write_theme_js(output_dir)
WriteThemeJs ==
    /\ pc = "theme_js"
    /\ out' = Append(out, written(THEME_JS_FILENAME, [script |-> THEME_JS_FILENAME]))
    /\ pc' = "year_pages"
    /\ UNCHANGED << config_exists, tree, made_dirs, cfg, entries_by_year, tag_index,
                    matches, today, year_i, stderr, parse_vars, meta_vars, slug_vars, steps_left >>

\* One iteration of `for year in years`: render and write {year}.html
WriteYearPage ==
    /\ pc = "year_pages"
    /\ LET years == years_of(entries_by_year)
           year  == years[year_i]
       IN  /\ out' = Append(out,
                       written(year \o HtmlExt,
                               render_year_page(year, years,
                                                dict_get(entries_by_year, year),
                                                cfg, FALSE)))
           /\ pc' = IF year_i = Len(years) THEN "index" ELSE "year_pages"
    /\ year_i' = year_i + 1
    /\ UNCHANGED << config_exists, tree, made_dirs, cfg, entries_by_year, tag_index,
                    matches, today, stderr, parse_vars, meta_vars, slug_vars, steps_left >>

\* if cfg["latest_as_index"]: render the latest year with is_index=True, write index.html
WriteIndex ==
    /\ pc = "index"
    /\ IF cfg.latest_as_index
       THEN LET years  == years_of(entries_by_year)
                latest == latest_year_of(entries_by_year)
            IN  out' = Append(out,
                         written(IndexPath,
                                 render_year_page(latest, years,
                                                  dict_get(entries_by_year, latest),
                                                  cfg, TRUE)))
       ELSE UNCHANGED out
    /\ pc' = "rss"
    /\ UNCHANGED << config_exists, tree, made_dirs, cfg, entries_by_year, tag_index,
                    matches, today, year_i, stderr, parse_vars, meta_vars, slug_vars, steps_left >>

\* generate_rss(latest_year, entries_by_year[latest_year], cfg, output_dir)
GenerateRss ==
    /\ pc = "rss"
    /\ LET latest == latest_year_of(entries_by_year)
       IN  out' = Append(out,
                    written(RssPath,
                            rss_document(latest, dict_get(entries_by_year, latest), cfg)))
    /\ pc' = "on_this_day"
    /\ UNCHANGED << config_exists, tree, made_dirs, cfg, entries_by_year, tag_index,
                    matches, today, year_i, stderr, parse_vars, meta_vars, slug_vars, steps_left >>

\* build_on_this_day(entries_by_year, cfg, output_dir); today is read from the clock.
BuildOnThisDay ==
    /\ pc = "on_this_day"
    /\ IF entries_by_year = << >>
       THEN UNCHANGED << today, matches, out >>
       ELSE \E day \in TodaySamples :
               /\ today' = day
               /\ matches' = on_this_day_matches(entries_by_year, day)
               /\ out' = Append(out,
                            written(OnThisDayPath,
                                    render_on_this_day_page(month_day(day),
                                                            years_of(entries_by_year),
                                                            matches', cfg)))
    /\ pc' = "tag_pages"
    /\ UNCHANGED << config_exists, tree, made_dirs, cfg, entries_by_year, tag_index,
                    year_i, stderr, parse_vars, meta_vars, slug_vars, steps_left >>

\* build_tag_pages(tag_index, entries_by_year, cfg, output_dir)
BuildTagPages ==
    /\ pc = "tag_pages"
    /\ IF tag_index = << >>
       THEN UNCHANGED << made_dirs, out >>
       ELSE /\ made_dirs' = made_dirs \cup {path_join(OutputDir, TagDir)}
            /\ out' = out \o
                 [ i \in 1..Len(tag_index) |->
                     written(path_join(TagDir, tag_index[i].key \o HtmlExt),
                             render_tag_page(tag_index[i].val.name, tag_index[i].key,
                                             years_of(entries_by_year),
                                             tag_index[i].val.entries, cfg)) ]
    /\ pc' = "tags_html"
    /\ UNCHANGED << config_exists, tree, cfg, entries_by_year, tag_index, matches,
                    today, year_i, stderr, parse_vars, meta_vars, slug_vars, steps_left >>

\* build_tag_index_page(tag_index, entries_by_year, cfg, output_dir)
BuildTagIndexPage ==
    /\ pc = "tags_html"
    /\ out' = Append(out,
                written(TagsPath,
                        render_tag_index_page(tag_index, years_of(entries_by_year), cfg)))
    /\ pc' = "search_index"
    /\ UNCHANGED << config_exists, tree, made_dirs, cfg, entries_by_year, tag_index,
                    matches, today, year_i, stderr, parse_vars, meta_vars, slug_vars, steps_left >>

\* build_search_index(entries_by_year, cfg, output_dir)
BuildSearchIndex ==
    /\ pc = "search_index"
    /\ IF ~cfg.enable_search
       THEN UNCHANGED out
       ELSE out' = Append(out,
                     written(SEARCH_INDEX_FILENAME,
                             [docs |-> search_docs(entries_by_year, cfg)]))
    /\ pc' = "done"
    /\ UNCHANGED << config_exists, tree, made_dirs, cfg, entries_by_year, tag_index,
                    matches, today, year_i, stderr, parse_vars, meta_vars, slug_vars, steps_left >>

Next ==
    \/ LoadConfig
    \/ MakeOutputDir
    \/ CollectEntries
    \/ CheckEntries
    \/ BuildTagIndex
    \/ CopyCss
    \/ CopySearchJs
    \/ WriteThemeJs
    \/ WriteYearPage
    \/ WriteIndex
    \/ GenerateRss
    \/ BuildOnThisDay
    \/ BuildTagPages
    \/ BuildTagIndexPage
    \/ BuildSearchIndex

Spec == Init /\ [][Next]_vars

-----------------------------------------------------------------------------
(* Specification of the steps of main() that follow the building of the    *)
(* indices, run in an order of choice.  Here out is the output directory:  *)
(* one record for each path, holding what was written to it last, in the   *)
(* order of the paths.                                                     *)

\* Path.write_text / shutil.copy2 on a directory: a file of the same path is replaced.
RECURSIVE dir_put(_, _)
dir_put(dir, w) ==
    IF dir = << >> THEN << w >>
    ELSE IF dir[1].path = w.path THEN << w >> \o Tail(dir)
    ELSE IF str_less(w.path, dir[1].path) THEN << w >> \o dir
    ELSE << dir[1] >> \o dir_put(Tail(dir), w)

RECURSIVE dir_put_all(_, _)
dir_put_all(dir, ws) ==
    IF ws = << >> THEN dir ELSE dir_put_all(dir_put(dir, ws[1]), Tail(ws))

\* The steps of main() from copy_css on (build.py:981-1022).
AllSteps ==
    { "copy_css", "copy_search_js", "theme_js", "year_pages", "index", "rss",
      "on_this_day", "tag_pages", "tags_html", "search_index" }

\* The trees of the runs whose steps are reordered: two years with tags, a tie and
\* a draft; one year.
AnyOrderTrees ==
    { [ files |-> ExtraFiles \cup
                  { [dir |-> Dir2024, name |-> File01, text |-> TextDraftAndTie],
                    [dir |-> Dir999, name |-> File01, text |-> TextTwoYears] },
        plain |-> ExtraPlain ],
      [ files |-> ExtraFiles \cup
                  { [dir |-> Dir2023, name |-> File01, text |-> TextTwoYears] },
        plain |-> ExtraPlain ] }

\* The configurations of these runs: the order of the entries is the default one.
AnyOrderConfigs == {c \in ConfigSamples : c.order = "reverse"}

\* The state of main() when build_tag_index has returned.
InitAnyOrder ==
    /\ pc = "copy_css"
    /\ config_exists = TRUE
    /\ tree \in AnyOrderTrees
    /\ cfg \in AnyOrderConfigs
    /\ made_dirs = {OutputDir}
    /\ entries_by_year = collect_entries_by_year(tree, cfg.order, cfg.include_drafts).val
    /\ tag_index = build_tag_index(entries_by_year)
    /\ matches = << >>
    /\ today = << >>
    /\ year_i = 1
    /\ out = << >>
    /\ stderr = << >>
    /\ steps_left = AllSteps
    /\ IdleParse /\ IdleMeta /\ IdleSlug

\* A step that has not run yet runs: its files are put into the directory.
RunStep(s, writes, warnings) ==
    /\ s \in steps_left
    /\ steps_left' = steps_left \ {s}
    /\ out' = dir_put_all(out, writes)
    /\ stderr' = stderr \o warnings
    /\ UNCHANGED << pc, config_exists, tree, cfg, entries_by_year, tag_index, year_i,
                    parse_vars, meta_vars, slug_vars >>

\* copy_css(output_dir)
StepCopyCss ==
    /\ \E exists \in BOOLEAN :
          IF exists
          THEN RunStep("copy_css", << written(CSS_FILENAME, [copy_of |-> CSS_FILENAME]) >>, << >>)
          ELSE RunStep("copy_css", << >>, << "WARNING: CSS file not found" >>)
    /\ UNCHANGED << made_dirs, matches, today >>

\* copy_search_js(cfg, output_dir)
StepCopySearchJs ==
    /\ IF ~cfg.enable_search
       THEN RunStep("copy_search_js", << >>, << >>)
       ELSE \E present \in SUBSET {LUNR_JS_FILENAME, SEARCH_JS_FILENAME} :
               LET names == << LUNR_JS_FILENAME, SEARCH_JS_FILENAME >>
                   here  == SelectSeq(names, LAMBDA n : n \in present)
                   gone  == SelectSeq(names, LAMBDA n : n \notin present)
               IN  RunStep("copy_search_js",
                           [i \in 1..Len(here) |-> written(here[i], [copy_of |-> here[i]])],
                           [i \in 1..Len(gone) |-> "WARNING: Search JS file not found"])
    /\ UNCHANGED << made_dirs, matches, today >>

\* write_theme_js(output_dir)
StepWriteThemeJs ==
    /\ RunStep("theme_js",
               << written(THEME_JS_FILENAME, [script |-> THEME_JS_FILENAME]) >>, << >>)
    /\ UNCHANGED << made_dirs, matches, today >>

\* The loop `for year in years`: render and write every {year}.html
StepWriteYearPages ==
    /\ LET years == years_of(entries_by_year)
       IN  RunStep("year_pages",
                   [ i \in 1..Len(years) |->
                       written(years[i] \o HtmlExt,
                               render_year_page(years[i], years,
                                                dict_get(entries_by_year, years[i]),
                                                cfg, FALSE)) ],
                   << >>)
    /\ UNCHANGED << made_dirs, matches, today >>

\* A step that writes the index page over the page of the latest year.
StepWriteIndexOverYearPage ==
    /\ LET years  == years_of(entries_by_year)
           latest == latest_year_of(entries_by_year)
       IN  RunStep("index",
                   IF cfg.latest_as_index
                   THEN << [ path    |-> latest \o HtmlExt,
                             content |-> [ page_title   |-> cfg.site_title,
                                           main_heading |-> latest,
                                           year_links   |-> year_links(years, latest),
                                           search_ui    |-> cfg.enable_search,
                                           order_text   |-> cfg.order,
                                           articles     |->
                                              render_entries(entries_by_year[1].val, TRUE) ] ] >>
                   ELSE << >>,
                   << >>)
    /\ UNCHANGED << made_dirs, matches, today >>

\* if cfg["latest_as_index"]: render the latest year with is_index=True, write index.html
StepWriteIndex ==
    /\ LET years  == years_of(entries_by_year)
           latest == latest_year_of(entries_by_year)
       IN  RunStep("index",
                   IF cfg.latest_as_index
                   THEN << written(IndexPath,
                                   render_year_page(latest, years,
                                                    dict_get(entries_by_year, latest),
                                                    cfg, TRUE)) >>
                   ELSE << >>,
                   << >>)
    /\ UNCHANGED << made_dirs, matches, today >>

\* generate_rss(latest_year, entries_by_year[latest_year], cfg, output_dir)
StepGenerateRss ==
    /\ LET latest == latest_year_of(entries_by_year)
       IN  RunStep("rss",
                   << written(RssPath,
                              rss_document(latest, dict_get(entries_by_year, latest), cfg)) >>,
                   << >>)
    /\ UNCHANGED << made_dirs, matches, today >>

\* build_on_this_day(entries_by_year, cfg, output_dir)
StepBuildOnThisDay ==
    /\ \E day \in TodaySamples :
          /\ today' = day
          /\ matches' = on_this_day_matches(entries_by_year, day)
          /\ RunStep("on_this_day",
                     << written(OnThisDayPath,
                                render_on_this_day_page(month_day(day),
                                                        years_of(entries_by_year),
                                                        matches', cfg)) >>,
                     << >>)
    /\ UNCHANGED made_dirs

\* build_tag_pages(tag_index, entries_by_year, cfg, output_dir)
StepBuildTagPages ==
    /\ RunStep("tag_pages",
               [ i \in 1..Len(tag_index) |->
                   written(path_join(TagDir, tag_index[i].key \o HtmlExt),
                           render_tag_page(tag_index[i].val.name, tag_index[i].key,
                                           years_of(entries_by_year),
                                           tag_index[i].val.entries, cfg)) ],
               << >>)
    /\ made_dirs' = IF tag_index = << >> THEN made_dirs
                    ELSE made_dirs \cup {path_join(OutputDir, TagDir)}
    /\ UNCHANGED << matches, today >>

\* build_tag_index_page(tag_index, entries_by_year, cfg, output_dir)
StepBuildTagIndexPage ==
    /\ RunStep("tags_html",
               << written(TagsPath,
                          render_tag_index_page(tag_index, years_of(entries_by_year), cfg)) >>,
               << >>)
    /\ UNCHANGED << made_dirs, matches, today >>

\* build_search_index(entries_by_year, cfg, output_dir)
StepBuildSearchIndex ==
    /\ RunStep("search_index",
               IF cfg.enable_search
               THEN << written(SEARCH_INDEX_FILENAME,
                               [docs |-> search_docs(entries_by_year, cfg)]) >>
               ELSE << >>,
               << >>)
    /\ UNCHANGED << made_dirs, matches, today >>

NextAnyOrder ==
    \/ StepCopyCss
    \/ StepCopySearchJs
    \/ StepWriteThemeJs
    \/ StepWriteYearPages
    \/ StepWriteIndex
    \/ StepGenerateRss
    \/ StepBuildOnThisDay
    \/ StepBuildTagPages
    \/ StepBuildTagIndexPage
    \/ StepBuildSearchIndex

SpecAnyOrder == InitAnyOrder /\ [][NextAnyOrder]_vars

-----------------------------------------------------------------------------
(* Claims about the indices and the artifacts of a run (Spec).             *)

Range(seq) == {seq[i] : i \in 1..Len(seq)}

\* Number of occurrences of x in seq.
Count(seq, x) == Cardinality({i \in 1..Len(seq) : seq[i] = x})

\* The year directories of the tree: the directories whose name is a number.
YearDirs(t) == {d \in {f.dir : f \in t.files} : isdigit(d)}

\* The entries written in the files of a directory, in the order of enumeration
\* (files by name, entries as in the file), with their metadata and origin.
RECURSIVE SourceEntriesOfFiles(_, _, _)
SourceEntriesOfFiles(t, dir, names) ==
    IF names = << >> THEN << >>
    ELSE LET es == parse_month_file(read_text(t, dir, names[1]))
         IN  [ i \in 1..Len(es) |->
                 LET m == extract_meta(es[i])
                 IN  [ date          |-> m.date,
                       heading_level |-> m.heading_level,
                       content_md    |-> m.content_md,
                       tags          |-> m.tags,
                       draft         |-> m.draft,
                       source_file   |-> path_join(dir, names[1]),
                       year          |-> dir ] ]
             \o SourceEntriesOfFiles(t, dir, Tail(names))

SourceEntries(t, dir) == SourceEntriesOfFiles(t, dir, glob_md_sorted(t, dir))

\* The source entries that survive draft filtering.
Surviving(t, dir, include_drafts) ==
    SelectSeq(SourceEntries(t, dir), LAMBDA e : ~e.draft \/ include_drafts)

\* An indexed entry as it was in the source (without its timestamp).
WithoutDt(e) ==
    [ date          |-> e.date,
      heading_level |-> e.heading_level,
      content_md    |-> e.content_md,
      tags          |-> e.tags,
      draft         |-> e.draft,
      source_file   |-> e.source_file,
      year          |-> e.year ]

ConfigLoaded == pc # "start" /\ config_exists

\* collect_entries_by_year has just returned the YearIndex.
Collected == pc = "check"

\* build_tag_index has just returned the TagIndex.
TagIndexBuilt == pc = "copy_css"

\* build_on_this_day has just computed the CalendarMatches.
CalendarBuilt == pc = "tag_pages"

\* All entries of the YearIndex, in index order.
IndexedEntries == dict_concat(entries_by_year)

\* The entries an artifact shows.
EntriesOfContent(c) ==
    IF "articles" \in DOMAIN c THEN {c.articles[i].entry : i \in 1..Len(c.articles)}
    ELSE IF "items" \in DOMAIN c THEN {c.items[i].entry : i \in 1..Len(c.items)}
    ELSE IF "docs" \in DOMAIN c THEN {c.docs[i].entry : i \in 1..Len(c.docs)}
    ELSE {}

\* The entries shown by the file written at path (none when it was not written).
EntriesAt(path) ==
    UNION {EntriesOfContent(out[i].content) : i \in {j \in 1..Len(out) : out[j].path = path}}

Written(path) == \E i \in 1..Len(out) : out[i].path = path

TagPagePath(t) == path_join(TagDir, slugify_tag(t) \o HtmlExt)

\* C1: with include_drafts false no draft is in the YearIndex, the TagIndex, the
\* CalendarMatches or any written page, feed or search index; with include_drafts
\* true a finished run shows every draft of a year directory wherever an entry
\* of that year, date and tags is shown.
C1_DraftFiltering ==
    /\ (ConfigLoaded /\ ~cfg.include_drafts) =>
          /\ \A e \in Range(IndexedEntries) : ~e.draft
          /\ \A i \in 1..Len(tag_index) : \A e \in Range(tag_index[i].val.entries) : ~e.draft
          /\ \A e \in Range(matches) : ~e.draft
          /\ \A i \in 1..Len(out) : \A e \in EntriesOfContent(out[i].content) : ~e.draft
    /\ (pc = "done" /\ cfg.include_drafts) =>
          \A d \in YearDirs(tree) : \A s \in Range(SourceEntries(tree, d)) :
             s.draft =>
                \E e \in Range(IndexedEntries) :
                   /\ WithoutDt(e) = s
                   /\ e \in Range(dict_get(entries_by_year, d))
                   /\ e \in EntriesAt(d \o HtmlExt)
                   /\ \A i \in 1..Len(e.tags) :
                         /\ dict_has(tag_index, slugify_tag(e.tags[i]))
                         /\ e \in Range(dict_get(tag_index, slugify_tag(e.tags[i])).entries)
                         /\ e \in EntriesAt(TagPagePath(e.tags[i]))
                   /\ month_day(e._dt) = month_day(today) =>
                         e \in Range(matches) /\ e \in EntriesAt(OnThisDayPath)
                   /\ d = latest_year_of(entries_by_year) =>
                         /\ e \in EntriesAt(RssPath)
                         /\ cfg.latest_as_index => e \in EntriesAt(IndexPath)
                   /\ cfg.enable_search => e \in EntriesAt(SEARCH_INDEX_FILENAME)

C1_Witness ==
    /\ pc = "done"
    /\ cfg.include_drafts
    /\ \E e \in Range(matches) :
          /\ e.draft
          /\ e.tags = << << "c" >> >>
          /\ e \in EntriesAt(TagPagePath(<< "c" >>))
          /\ e \in EntriesAt(SEARCH_INDEX_FILENAME)

\* C2: every entry of a bucket has the bucket key as year and was read from the
\* directory of that name, whatever the year of its date; no bucket is empty, and
\* the keys are exactly the year directories with a surviving entry.
C2_BucketsMatchDirectories ==
    Collected =>
        /\ \A i \in 1..Len(entries_by_year) :
              /\ entries_by_year[i].val # << >>
              /\ \A e \in Range(entries_by_year[i].val) :
                    /\ e.year = entries_by_year[i].key
                    /\ startswith(e.source_file, entries_by_year[i].key \o << "/" >>)
        /\ Range(dict_keys(entries_by_year)) =
              {d \in YearDirs(tree) : Surviving(tree, d, cfg.include_drafts) # << >>}

C2_Witness ==
    /\ pc = "check"
    /\ ~cfg.include_drafts
    /\ dict_has(entries_by_year, Dir999)
    /\ \E e \in Range(dict_get(entries_by_year, Dir999)) : e._dt[1] = 2023
    /\ ~dict_has(entries_by_year, Dir2023)
    /\ \E f \in tree.files : f.dir = Dir2023 /\ f.text = TextOnlyDraft

\* The entries of seq that carry the date d.
OfDate(seq, d) == SelectSeq(seq, LAMBDA e : e.date = d)

\* C3: every bucket is ordered by timestamp in the configured direction, and the
\* entries of one date stand in the order of their enumeration.
C3_BucketsOrderedAndStable ==
    Collected =>
        \A i \in 1..Len(entries_by_year) :
           LET b   == entries_by_year[i].val
               src == Surviving(tree, entries_by_year[i].key, cfg.include_drafts)
           IN  /\ \A j \in 1..(Len(b) - 1) :
                     IF cfg.order = "reverse"
                     THEN ~dt_less(b[j]._dt, b[j + 1]._dt)
                     ELSE ~dt_less(b[j + 1]._dt, b[j]._dt)
               /\ \A e \in Range(b) :
                     LET same == OfDate(b, e.date)
                     IN  [j \in 1..Len(same) |-> WithoutDt(same[j])] = OfDate(src, e.date)

C3_Witness ==
    /\ pc = "check"
    /\ cfg.order = "reverse"
    /\ \E i \in 1..Len(entries_by_year) :
          LET b == entries_by_year[i].val
          IN  /\ Len(b) = 4
              /\ b[1].date = Date_2024_03_10 /\ b[1].source_file = path_join(Dir2024, File01)
              /\ b[2].date = Date_2024_03_10 /\ b[2].source_file = path_join(Dir2024, File01)
              /\ b[3].date = Date_2024_03_10 /\ b[3].source_file = path_join(Dir2024, File02)
              /\ b[4].date = Date_2023_03_10

\* C4: every TagIndex bucket is ordered newest first, in both global orders.
C4_TagBucketsNewestFirst ==
    TagIndexBuilt =>
        \A i \in 1..Len(tag_index) :
           LET b == tag_index[i].val.entries
           IN  \A j \in 1..(Len(b) - 1) : ~dt_less(b[j]._dt, b[j + 1]._dt)

C4_Witness ==
    /\ pc = "copy_css"
    /\ cfg.order = "chronological"
    /\ \E i \in 1..Len(tag_index) :
          LET b == tag_index[i].val.entries
          IN  Len(b) >= 2 /\ dt_less(b[Len(b)]._dt, b[1]._dt)

\* The raw tags of the YearIndex in scanning order: years in index order, entries
\* in bucket order, tags in entry order.
RECURSIVE TagsInScanOrder(_)
TagsInScanOrder(entries) ==
    IF entries = << >> THEN << >> ELSE entries[1].tags \o TagsInScanOrder(Tail(entries))

\* C5: the tags of one slug share one bucket, keyed by the slug, and its display
\* name is the first of these tags in scanning order.
C5_OneBucketPerSlugFirstSpelling ==
    TagIndexBuilt =>
        LET scan == TagsInScanOrder(IndexedEntries)
        IN  /\ \A i, j \in 1..Len(tag_index) : tag_index[i].key = tag_index[j].key => i = j
            /\ \A e \in Range(IndexedEntries) : \A k \in 1..Len(e.tags) :
                  /\ dict_has(tag_index, slugify_tag(e.tags[k]))
                  /\ e \in Range(dict_get(tag_index, slugify_tag(e.tags[k])).entries)
            /\ \A i \in 1..Len(tag_index) :
                  LET first == CHOOSE k \in 1..Len(scan) :
                                 /\ slugify_tag(scan[k]) = tag_index[i].key
                                 /\ \A l \in 1..(k - 1) : slugify_tag(scan[l]) # tag_index[i].key
                  IN  /\ \E k \in 1..Len(scan) : slugify_tag(scan[k]) = tag_index[i].key
                      /\ tag_index[i].val.name = scan[first]

C5_Witness ==
    /\ pc = "copy_css"
    /\ cfg.order = "reverse"
    /\ \E i \in 1..Len(tag_index) :
          /\ tag_index[i].key = << "a", "-", "b" >>
          /\ tag_index[i].val.name = << "A", " ", "b" >>
          /\ \E e \in Range(tag_index[i].val.entries) : e.tags = << << "a", "_", "b" >>, << "A", " ", " ", "b" >> >>

\* C10: the CalendarMatches are the entries of the YearIndex, of all years, whose
\* month and day are those of the reference date, each as often as it is in the
\* YearIndex, newest first, in both global orders.
C10_CalendarMatches ==
    CalendarBuilt =>
        /\ \A e \in Range(IndexedEntries) \cup Range(matches) :
              Count(matches, e) =
                 IF e._dt[2] = today[2] /\ e._dt[3] = today[3]
                 THEN Count(IndexedEntries, e) ELSE 0
        /\ \A j \in 1..(Len(matches) - 1) : ~dt_less(matches[j]._dt, matches[j + 1]._dt)

C10_Witness ==
    /\ pc = "tag_pages"
    /\ cfg.order = "chronological"
    /\ Len(matches) >= 3
    /\ matches[1]._dt = << 2024, 3, 10 >>
    /\ matches[1].year # matches[Len(matches)].year
    /\ matches[Len(matches)]._dt = << 2023, 3, 10 >>
    /\ \E e \in Range(IndexedEntries) : e._dt = << 2024, 3, 11 >>

-----------------------------------------------------------------------------
(* Claims about parse_month_file (SpecParse).                              *)

\* The date written on a heading line: what follows the markers, trimmed.
HeadingLineDate(line) == strip(SubSeq(line, RunLen(line, 1, {"#"}) + 1, Len(line)))

\* The indices of the date-heading lines, in file order.
HeadingIdx(lines) ==
    SelectSeq([i \in 1..Len(lines) |-> i], LAMBDA i : ENTRY_HEADING_RE(lines[i]).ok)

\* A title line the parser drops: it starts with "# " and no heading precedes it.
DroppedTitle(lines, i) ==
    /\ startswith(lines[i], << "#", " " >>)
    /\ \A j \in 1..(i - 1) : ~ENTRY_HEADING_RE(lines[j]).ok

\* C6: the dates of the entries returned by parse_month_file are the dates of the
\* date-heading lines of the file, in the same order and number; a file without a
\* date-heading line gives no entry.
C6_DatesFollowHeadings ==
    ppc = "done" =>
        LET lines == splitlines(text)
            H     == HeadingIdx(lines)
        IN  /\ Len(parsed) = Len(H)
            /\ \A k \in 1..Len(H) : parsed[k].date = HeadingLineDate(lines[H[k]])

C6_Witness ==
    /\ ppc = "done"
    /\ Len(parsed) = 2
    /\ parsed[1].date = Date_2023_03_10
    /\ parsed[2].date = Date_2024_03_10

\* The lines obtained by writing, for each entry in order, its heading line and
\* then the lines of its body.
RECURSIVE ReassembledLines(_)
ReassembledLines(entries) ==
    IF entries = << >> THEN << >>
    ELSE << Hashes(entries[1].heading_level) \o << " " >> \o entries[1].date >>
         \o splitlines(entries[1].content_md)
         \o ReassembledLines(Tail(entries))

\* The lines of the file without the dropped title lines.
KeptFileLines(lines) ==
    LET keep == SelectSeq([i \in 1..Len(lines) |-> i], LAMBDA i : ~DroppedTitle(lines, i))
    IN  [k \in 1..Len(keep) |-> lines[keep[k]]]

\* A file made of title lines, then date headings and the lines that follow them.
StartsWithHeading(lines) ==
    /\ HeadingIdx(lines) # << >>
    /\ \A i \in 1..(HeadingIdx(lines)[1] - 1) : DroppedTitle(lines, i)

\* C7 as stated (here for the files that have no text before their first
\* heading): heading line plus body of every entry, concatenated in order, give
\* back the file without its dropped title lines.
C7_RoundTrip ==
    (ppc = "done" /\ StartsWithHeading(splitlines(text))) =>
        ReassembledLines(parsed) = KeptFileLines(splitlines(text))

\* The lines that belong to the k-th heading: the lines after it and before the next
\* heading, and for the first heading also the lines before it, dropped title
\* lines excepted.
SegmentLines(lines, H, k) ==
    LET lo  == IF k = 1 THEN 0 ELSE H[k]
        hi  == IF k < Len(H) THEN H[k + 1] ELSE Len(lines) + 1
        sel == SelectSeq([i \in 1..Len(lines) |-> i],
                         LAMBDA i : /\ lo < i /\ i < hi /\ i # H[k]
                                    /\ ~DroppedTitle(lines, i))
    IN  [j \in 1..Len(sel) |-> lines[sel[j]]]

\* C7 (amended): there is one entry per date-heading line; it keeps the heading's
\* marker count and date, and its body is the text of the lines that belong to the
\* heading, joined by newlines and trimmed of leading and trailing whitespace.
C7_BodiesAreTrimmedSegments ==
    ppc = "done" =>
        LET lines == splitlines(text)
            H     == HeadingIdx(lines)
        IN  /\ Len(parsed) = Len(H)
            /\ \A k \in 1..Len(H) :
                  /\ parsed[k].heading_level = RunLen(lines[H[k]], 1, {"#"})
                  /\ parsed[k].date = HeadingLineDate(lines[H[k]])
                  /\ parsed[k].content_md =
                         strip(join(SegmentLines(lines, H, k), << "\n" >>))

C7_Witness ==
    /\ ppc = "done"
    /\ Len(parsed) = 1
    /\ parsed[1].content_md = << "y" >>
    /\ ReassembledLines(parsed) # KeptFileLines(splitlines(text))

-----------------------------------------------------------------------------
(* Claims about extract_meta (SpecMeta).                                   *)

\* A line the metadata scan takes as metadata.
IsMetaLine(line) ==
    LET l == lower(strip(line))
    IN  startswith(l, TagsPrefix) \/ startswith(l, DraftPrefix)

BeginsWithMeta(body) ==
    LET ls == splitlines(body) IN ls # << >> /\ IsMetaLine(ls[1])

-----------------------------------------------------------------------------
(* Claims about slugify_tag (SpecSlug).                                    *)

SepChars == Whitespace \cup {"_", "-"}

\* The tags that differ from t by the case of a letter, by one more whitespace
\* character around it, or by one more character in a run of separators.
TagVariants(t) ==
    {lower(t)}
    \cup {[t EXCEPT ![i] = lower_char(t[i])] : i \in 1..Len(t)}
    \cup {<< w >> \o t : w \in Whitespace}
    \cup {t \o << w >> : w \in Whitespace}
    \cup {SubSeq(t, 1, i) \o << c >> \o SubSeq(t, i + 1, Len(t)) :
              i \in {j \in 1..Len(t) : t[j] \in SepChars}, c \in SepChars}

\* C9: the slug is not empty, is made of a-z, 0-9 and "-", neither starts nor ends
\* with "-", has no "--", is "tag" when the tag has no letter or digit, and is the
\* same for tags that differ in case, surrounding whitespace or separator runs.
C9_SlugNormalForm ==
    spc = "done" =>
        /\ slug # << >>
        /\ \A i \in 1..Len(slug) : slug[i] \in LowerCase \cup Digits \cup {"-"}
        /\ slug[1] # "-"
        /\ slug[Len(slug)] # "-"
        /\ \A i \in 1..(Len(slug) - 1) : ~(slug[i] = "-" /\ slug[i + 1] = "-")
        /\ (\A i \in 1..Len(tag) : lower_char(tag[i]) \notin LowerCase \cup Digits)
               => slug = << "t", "a", "g" >>
        /\ \A v \in TagVariants(tag) : slugify_tag(v) = slug
        /\ tag = OutdoorTrips => slug = slugify_tag(OutdoorTripsAlt)

C9_Witness ==
    /\ spc = "done"
    /\ tag = OutdoorTripsAlt
    /\ slug = << "o", "u", "t", "d", "o", "o", "r", "-", "t", "r", "i", "p", "s" >>

-----------------------------------------------------------------------------
(* Claims about the artifacts of a finished run (Spec).                    *)

\* The content written at path (the last write, when it was written).
ContentAt(path) ==
    out[CHOOSE i \in 1..Len(out) :
          out[i].path = path /\ \A j \in (i + 1)..Len(out) : out[j].path # path].content

\* The key of the YearIndex with the greatest year number.
GreatestYear(by_year) ==
    CHOOSE k \in Range(dict_keys(by_year)) :
       \A k2 \in Range(dict_keys(by_year)) : to_int(k2) <= to_int(k)

\* The entries the items of the feed stand for, in feed order.
FeedEntries == [i \in 1..Len(ContentAt(RssPath).items) |-> ContentAt(RssPath).items[i].entry]

\* C11: the feed holds one item for each entry of the year with the greatest year
\* number among the keys of the YearIndex, and no item of another year.
C11_FeedCoversGreatestYear ==
    Written(RssPath) =>
        /\ \A e \in Range(dict_get(entries_by_year, GreatestYear(entries_by_year))) :
              Count(FeedEntries, e) =
                 Count(dict_get(entries_by_year, GreatestYear(entries_by_year)), e)
        /\ \A e \in Range(FeedEntries) : e.year = GreatestYear(entries_by_year)

\* The entries the documents of the search index stand for, in index order.
SearchDocs == ContentAt(SEARCH_INDEX_FILENAME).docs

\* C12: with search enabled the search index of a finished run holds one document
\* for each surviving entry of each year directory and no other document, and the
\* id of a document is the year label, a hyphen and the date of its entry.
C12_SearchIndexCoversAllEntries ==
    (pc = "done" /\ cfg.enable_search) =>
        /\ Written(SEARCH_INDEX_FILENAME)
        /\ [i \in 1..Len(SearchDocs) |-> SearchDocs[i].entry] = IndexedEntries
        /\ \A d \in YearDirs(tree) :
              LET surv == Surviving(tree, d, cfg.include_drafts)
                  docs == [i \in 1..Len(SearchDocs) |-> WithoutDt(SearchDocs[i].entry)]
              IN  \A s \in Range(surv) : Count(docs, s) = Count(surv, s)
        /\ \A i \in 1..Len(SearchDocs) :
              /\ SearchDocs[i].entry.year \in YearDirs(tree)
              /\ SearchDocs[i].id = SearchDocs[i].entry.year \o << "-" >> \o SearchDocs[i].entry.date

C12_Witness ==
    /\ pc = "done"
    /\ cfg.enable_search
    /\ \E i, j, k \in 1..Len(SearchDocs) :
          /\ SearchDocs[i].id = << "9", "9", "9", "-", "2", "0", "2", "3", "-", "0", "3", "-", "1", "0" >>
          /\ SearchDocs[j].id = << "2", "0", "2", "4", "-", "2", "0", "2", "4", "-", "0", "3", "-", "1", "0" >>
          /\ SearchDocs[k].id = << "2", "0", "2", "4", "-", "2", "0", "2", "4", "-", "0", "3", "-", "1", "0" >>
          /\ j # k

\* The step that writes index.html is over.
IndexStepDone ==
    pc \in {"rss", "on_this_day", "tag_pages", "tags_html", "search_index", "done"}

\* C13 as stated: index.html is written exactly when latest_as_index is set, and
\* it is identical to the year page of the most recent year.
C13_IndexIsCopyOfLatestYearPage ==
    IndexStepDone =>
        /\ Written(IndexPath) <=> cfg.latest_as_index
        /\ Written(IndexPath) =>
              ContentAt(IndexPath) = ContentAt(GreatestYear(entries_by_year) \o HtmlExt)

\* C13, amended: index.html is written exactly when latest_as_index is set, by the
\* step that follows the year pages; it shows the year main() takes as latest (the
\* last key in string order) with the articles, sidebar and search box of that
\* year's page, under the site title as page title and a heading of its own.
C13_IndexIsLatestYearPageRetitled ==
    /\ ~IndexStepDone => ~Written(IndexPath)
    /\ IndexStepDone =>
          /\ Written(IndexPath) <=> cfg.latest_as_index
          /\ Written(IndexPath) =>
                LET latest == latest_year_of(entries_by_year)
                    page   == ContentAt(latest \o HtmlExt)
                IN  /\ Written(latest \o HtmlExt)
                    /\ ContentAt(IndexPath) =
                          [page EXCEPT
                             !.page_title = cfg.site_title,
                             !.main_heading = << "L", "a", "t", "e", "s", "t", " ", "e", "n", "t", "r", "i", "e", "s", " ", "-", " " >> \o latest]
                    /\ ContentAt(IndexPath).page_title # page.page_title
                    /\ ContentAt(IndexPath).main_heading # page.main_heading

C13_Witness ==
    /\ pc = "done"
    /\ cfg.latest_as_index
    /\ Written(IndexPath)
    /\ Len(entries_by_year) >= 2
    /\ ContentAt(IndexPath).page_title = << "J" >>
    /\ Len(ContentAt(IndexPath).articles) >= 2
    /\ Written(Dir2024 \o HtmlExt)
    /\ ContentAt(IndexPath).articles = ContentAt(Dir2024 \o HtmlExt).articles

\* Number of writes to path.
Writes(path) == Cardinality({i \in 1..Len(out) : out[i].path = path})

\* The entries a page shows, in page order.
PageEntries(path) ==
    [i \in 1..Len(ContentAt(path).articles) |-> ContentAt(path).articles[i].entry]

\* The files of a run that are neither a year page nor a tag page.
OtherPaths ==
    { IndexPath, RssPath, OnThisDayPath, TagsPath, SEARCH_INDEX_FILENAME,
      CSS_FILENAME, LUNR_JS_FILENAME, SEARCH_JS_FILENAME, THEME_JS_FILENAME }

\* C14: a finished run has written one page {year}.html for every key of the
\* YearIndex and one page tag/{slug}.html for every key of the TagIndex, each
\* holding the entries of its bucket in bucket order, and no other year or tag page.
C14_OnePagePerYearAndTag ==
    pc = "done" =>
        /\ \A i \in 1..Len(entries_by_year) :
              /\ Writes(entries_by_year[i].key \o HtmlExt) = 1
              /\ PageEntries(entries_by_year[i].key \o HtmlExt) = entries_by_year[i].val
        /\ \A i \in 1..Len(tag_index) :
              /\ Writes(TagDir \o << "/" >> \o tag_index[i].key \o HtmlExt) = 1
              /\ PageEntries(TagDir \o << "/" >> \o tag_index[i].key \o HtmlExt)
                    = tag_index[i].val.entries
        /\ \A i \in 1..Len(out) :
              \/ out[i].path \in OtherPaths
              \/ \E j \in 1..Len(entries_by_year) :
                    out[i].path = entries_by_year[j].key \o HtmlExt
              \/ \E j \in 1..Len(tag_index) :
                    out[i].path = TagDir \o << "/" >> \o tag_index[j].key \o HtmlExt

C14_Witness ==
    /\ pc = "done"
    /\ Len(entries_by_year) = 2
    /\ Len(tag_index) = 2
    /\ Writes(Dir999 \o HtmlExt) = 1
    /\ Writes(<< "t", "a", "g", "/", "a", "-", "b", ".", "h", "t", "m", "l" >>) = 1
    /\ Len(PageEntries(<< "t", "a", "g", "/", "a", "-", "b", ".", "h", "t", "m", "l" >>)) >= 2
    /\ Writes(Dir2024 \o HtmlExt) = 1
    /\ Len(PageEntries(Dir2024 \o HtmlExt)) >= 3

-----------------------------------------------------------------------------
(* Claims about the failures of a run (Spec).                              *)

\* No entry of a year directory survives draft filtering.
NoSurvivor == \A d \in YearDirs(tree) : Surviving(tree, d, cfg.include_drafts) = << >>

\* Every surviving entry has a date strptime accepts.
AllDatesParse ==
    \A d \in YearDirs(tree) :
       \A e \in Range(Surviving(tree, d, cfg.include_drafts)) : strptime(e.date).ok

\* C15: with a configuration loaded, a run over a tree without surviving entry
\* ends in exit 1 with the diagnostic of the empty corpus, which is not the
\* diagnostic of a missing configuration; a run over a tree with a surviving entry
\* and dates that all parse goes on to build the TagIndex and does not print that
\* diagnostic.
C15_EmptyCorpusExit ==
    /\ (config_exists /\ pc \in {"exit_1", "raised", "tag_index"}) =>
          /\ NoSurvivor =>
                pc = "exit_1" /\ stderr = << "No entries found." >> /\ out = << >>
          /\ (~NoSurvivor /\ AllDatesParse) =>
                /\ pc = "tag_index"
                /\ \A i \in 1..Len(stderr) : stderr[i] # "No entries found."
    /\ (~config_exists /\ pc = "exit_1") =>
          /\ stderr = << "Config file not found" >>
          /\ stderr # << "No entries found." >>
    /\ pc \notin {"start", "mkdir", "collect", "check", "exit_1", "raised"} =>
          \A i \in 1..Len(stderr) : stderr[i] # "No entries found."

C15_Witness ==
    /\ pc = "exit_1"
    /\ config_exists
    /\ ~cfg.include_drafts
    /\ stderr = << "No entries found." >>
    /\ \E f \in tree.files : f.dir = Dir2024 /\ f.name = File01 /\ f.text = TextOnlyDraft
    /\ \E f \in tree.files : f.dir = Dir2023 /\ f.name = File01 /\ f.text = TextOnlyDraft

\* The run has ended in a fatal error.
Aborted == pc \in {"exit_1", "raised"}

\* C16: a run that ends in a fatal error (configuration missing, a date that does
\* not parse, empty corpus) has written no artifact; at most the output directory
\* was created, and not even that when the configuration is missing.
C16_AbortBeforeAnyArtifact ==
    Aborted =>
        /\ out = << >>
        /\ made_dirs \subseteq {OutputDir}
        /\ ~config_exists => made_dirs = {}
        /\ Len(stderr) = 1
        /\ stderr[1] \in {"Config file not found", "ValueError", "No entries found."}

C16_Witness ==
    /\ pc = "raised"
    /\ stderr = << "ValueError" >>
    /\ out = << >>
    /\ made_dirs = {OutputDir}
    /\ \E f \in tree.files : f.dir = Dir2023 /\ f.name = File01 /\ f.text = TextTwoYears
    /\ \E f \in tree.files : f.dir = Dir2024 /\ f.name = File01 /\ f.text = TextBadDate

\* Some entry the parser produces in a year directory has a date strptime rejects.
SomeInvalidDate ==
    \E d \in YearDirs(tree) : \E e \in Range(SourceEntries(tree, d)) : ~strptime(e.date).ok

\* C17: once the entries are collected, a tree with an entry whose date is no
\* calendar date has made the run abort, whatever the metadata of the entry and
\* the configuration.
C17_InvalidDateAlwaysAborts ==
    (config_exists /\ pc \notin {"start", "mkdir", "collect"} /\ SomeInvalidDate) =>
        pc = "raised"

\* The static assets that are copied, and the diagnostics of a missing one.
CopiedAssets == {CSS_FILENAME, LUNR_JS_FILENAME, SEARCH_JS_FILENAME}

AssetWarnings == {"WARNING: CSS file not found", "WARNING: Search JS file not found"}

\* What a finished run writes besides the copied assets, computed from the
\* indices, the configuration and the date alone.
ArtifactsOfIndices ==
    LET years  == years_of(entries_by_year)
        latest == latest_year_of(entries_by_year)
    IN  << written(THEME_JS_FILENAME, [script |-> THEME_JS_FILENAME]) >>
        \o [ i \in 1..Len(years) |->
               written(years[i] \o HtmlExt,
                       render_year_page(years[i], years,
                                        dict_get(entries_by_year, years[i]), cfg, FALSE)) ]
        \o (IF cfg.latest_as_index
            THEN << written(IndexPath,
                            render_year_page(latest, years,
                                             dict_get(entries_by_year, latest), cfg, TRUE)) >>
            ELSE << >>)
        \o << written(RssPath, rss_document(latest, dict_get(entries_by_year, latest), cfg)),
              written(OnThisDayPath,
                      render_on_this_day_page(month_day(today), years, matches, cfg)) >>
        \o [ i \in 1..Len(tag_index) |->
               written(path_join(TagDir, tag_index[i].key \o HtmlExt),
                       render_tag_page(tag_index[i].val.name, tag_index[i].key, years,
                                       tag_index[i].val.entries, cfg)) ]
        \o << written(TagsPath, render_tag_index_page(tag_index, years, cfg)) >>
        \o (IF cfg.enable_search
            THEN << written(SEARCH_INDEX_FILENAME, [docs |-> search_docs(entries_by_year, cfg)]) >>
            ELSE << >>)

\* C18: a missing stylesheet, lunr.js or search.js never ends the run; the asset is
\* left out with a warning, every other asset is copied, and the pages, the feed
\* and the search index are what the indices determine, whichever assets exist.
C18_MissingAssetIsSkipped ==
    /\ Aborted => \A i \in 1..Len(stderr) : stderr[i] \notin AssetWarnings
    /\ pc = "done" =>
          /\ Written(CSS_FILENAME) <=>
                (\A i \in 1..Len(stderr) : stderr[i] # "WARNING: CSS file not found")
          /\ Cardinality({a \in {LUNR_JS_FILENAME, SEARCH_JS_FILENAME} : Written(a)})
                + Count(stderr, "WARNING: Search JS file not found")
                = IF cfg.enable_search THEN 2 ELSE 0
          /\ \A i \in 1..Len(stderr) : stderr[i] \in AssetWarnings
          /\ SelectSeq(out, LAMBDA w : w.path \notin CopiedAssets) = ArtifactsOfIndices

C18_Witness ==
    /\ pc = "done"
    /\ cfg.enable_search
    /\ cfg.latest_as_index
    /\ stderr = << "WARNING: CSS file not found", "WARNING: Search JS file not found" >>
    /\ ~Written(CSS_FILENAME)
    /\ ~Written(LUNR_JS_FILENAME)
    /\ Written(SEARCH_JS_FILENAME)
    /\ Written(SEARCH_INDEX_FILENAME)
    /\ Written(IndexPath)
    /\ tag_index # << >>

-----------------------------------------------------------------------------
(* Claims about the order of the steps of a run (Spec).                    *)

\* The YearIndex and the TagIndex are completely built.
YearAndTagIndexBuilt ==
    /\ entries_by_year = collect_entries_by_year(tree, cfg.order, cfg.include_drafts).val
    /\ entries_by_year # << >>
    /\ tag_index = build_tag_index(entries_by_year)

\* The CalendarMatches are built.
CalendarMatchesBuilt ==
    /\ today # << >>
    /\ matches = on_this_day_matches(entries_by_year, today)

\* C19 as stated: when the first artifact has been written, the YearIndex, the
\* TagIndex and the CalendarMatches are completely built.
C19_AllIndicesBeforeFirstArtifact ==
    Len(out) = 1 => YearAndTagIndexBuilt /\ CalendarMatchesBuilt

\* C19, amended: when the first artifact has been written, the YearIndex and the
\* TagIndex are completely built; the CalendarMatches are built later, after the
\* assets, the year pages, index.html and the feed are written, and they are
\* built when the on-this-day page, the one artifact that shows them, is written.
C19_YearAndTagIndexBeforeFirstArtifact ==
    /\ Len(out) = 1 => YearAndTagIndexBuilt
    /\ (out # << >> /\ ~Written(OnThisDayPath)) => today = << >> /\ matches = << >>
    /\ Written(RssPath) => out[Len(out)].path = RssPath \/ Written(OnThisDayPath)
    /\ Written(OnThisDayPath) =>
          /\ CalendarMatchesBuilt
          /\ PageEntries(OnThisDayPath) = matches

C19_Witness ==
    /\ pc = "on_this_day"
    /\ Written(RssPath)
    /\ Written(IndexPath)
    /\ Written(THEME_JS_FILENAME)
    /\ today = << >>
    /\ matches = << >>
    /\ tag_index # << >>
    /\ \E e \in Range(IndexedEntries) : e._dt = << 2024, 3, 10 >>

\* The copied assets that are in the output directory.
AssetsInDirectory == SelectSeq(out, LAMBDA w : w.path \in CopiedAssets)

\* C20: whatever the order in which the steps that follow the building of the
\* indices are run, no step writes a path another step writes (the directory holds
\* one file for each file written), and when all steps have run the directory
\* holds what the run in the order of main() writes: the artifacts the indices
\* determine and the assets that exist.
C20_AnyOrderSameDirectory ==
    steps_left = {} =>
        /\ out = dir_put_all(<< >>, ArtifactsOfIndices \o AssetsInDirectory)
        /\ Len(out) = Len(ArtifactsOfIndices) + Len(AssetsInDirectory)
        /\ \A i, j \in 1..Len(out) : out[i].path = out[j].path => i = j
        /\ \A i \in 1..Len(AssetsInDirectory) :
              AssetsInDirectory[i].content = [copy_of |-> AssetsInDirectory[i].path]
        /\ Len(AssetsInDirectory) + Len(stderr) = IF cfg.enable_search THEN 3 ELSE 1

C20_Witness ==
    /\ steps_left = {}
    /\ cfg.enable_search
    /\ cfg.latest_as_index
    /\ Len(entries_by_year) = 2
    /\ Len(tag_index) = 2
    /\ stderr = << >>
    /\ Len(out) = 13

\* ---------------------------------------------------------------------------
\* C21: once collect_entries_by_year has returned, no later step of the
\* build (tag indexing, calendar indexing, rendering, writing) changes the
\* configuration or the year index (the entries' fields, and the membership
\* and order of every bucket); the entries held by the tag index and by the
\* calendar matches are entries of the year index, field for field.
AfterCollect == pc \notin {"start", "mkdir", "collect"}

C21_Frame ==
    [][AfterCollect =>
          /\ cfg' = cfg
          /\ entries_by_year' = entries_by_year
          /\ \A i \in 1..Len(tag_index') :
                Range(tag_index'[i].val.entries) \subseteq Range(IndexedEntries)
          /\ Range(matches') \subseteq Range(IndexedEntries)]_vars

\* The build ran to the end over a year index held oldest-first whose
\* bucket was not already newest-first, with a tag index and matches built.
C21_Witness ==
    /\ pc = "done"
    /\ cfg.order = "chronological"
    /\ \E i \in 1..Len(entries_by_year) :
          entries_by_year[i].val # sort_by_dt(entries_by_year[i].val, TRUE)
    /\ tag_index # << >>
    /\ matches # << >>

-----------------------------------------------------------------------------
(* Claims about the heading pattern and the bodies (SpecParse).            *)

\* The shape of a line: h markers, w characters of space, a date dddd-dd-dd
\* and t characters of space, and nothing else.
LineShape(line, h, w, t) ==
    /\ Len(line) = h + w + 10 + t
    /\ \A i \in 1..h : line[i] = "#"
    /\ \A i \in (h + 1)..(h + w) : line[i] \in Whitespace
    /\ DateShape(SubSeq(line, h + w + 1, h + w + 10))
    /\ \A i \in (h + w + 11)..Len(line) : line[i] \in Whitespace

\* 2 to 6 markers, exactly one blank, a date, end of line.
StrictHeading(line) ==
    \E h \in 2..6 : LineShape(line, h, 1, 0) /\ line[h + 1] = " "

\* 2 to 6 markers, at least one character of space, a date, then only space.
LenientHeading(line) ==
    \E h \in 2..6 : \E w \in 1..Len(line) : \E t \in 0..Len(line) : LineShape(line, h, w, t)

\* The heading lines of a file under a reading of the pattern, as the marker
\* count and the date of each, in file order.
HeadingsBy(lines, Shape(_)) ==
    LET idx == SelectSeq([i \in 1..Len(lines) |-> i], LAMBDA i : Shape(lines[i]))
    IN  [k \in 1..Len(idx) |->
            [heading_level |-> RunLen(lines[idx[k]], 1, {"#"}),
             date          |-> HeadingLineDate(lines[idx[k]])]]

\* The marker count and the date of each entry returned.
EntryHeadings(entries) ==
    [k \in 1..Len(entries) |->
        [heading_level |-> entries[k].heading_level, date |-> entries[k].date]]

\* C22 as stated: the entries of parse_month_file start at exactly the lines
\* made of 2 to 6 markers, one space, a date and nothing more; a line with
\* several spaces after the markers or with whitespace after the date starts
\* no entry.
C22_HeadingHasExactlyOneSpace ==
    ppc = "done" => EntryHeadings(parsed) = HeadingsBy(splitlines(text), StrictHeading)

\* C22 (amended): the entries of parse_month_file start at exactly the lines
\* made of 2 to 6 markers, one or more whitespace characters, a date of the
\* shape dddd-dd-dd and then nothing but whitespace up to the end of the line.
C22_HeadingAllowsWhitespace ==
    ppc = "done" => EntryHeadings(parsed) = HeadingsBy(splitlines(text), LenientHeading)

\* A file whose heading has two spaces after the markers and a space after the
\* date, next to lines that start no entry (seven markers, no space).
C22_Witness ==
    /\ ppc = "done"
    /\ \E i \in 1..Len(splitlines(text)) :
          /\ LenientHeading(splitlines(text)[i])
          /\ ~StrictHeading(splitlines(text)[i])
    /\ \E i \in 1..Len(splitlines(text)) :
          splitlines(text)[i] \in {Hashes(7) \o << " " >> \o Date_2024_03_10,
                                   Hashes(2) \o Date_2024_03_10}
    /\ Len(parsed) = 1
    /\ parsed[1].date = Date_2024_03_11

\* The lines located after the k-th heading and before the next heading (or
\* the end of the file).
OwnLines(lines, H, k) ==
    SubSeq(lines, H[k] + 1, (IF k < Len(H) THEN H[k + 1] ELSE Len(lines) + 1) - 1)

\* C23: the body of every entry returned by parse_month_file is made only of
\* the lines after the entry's own date heading and before the next one: it
\* is those lines joined and trimmed, so no line that stands before the first
\* heading, title line or other text, is part of a body.
C23_BodyIsOwnLinesOnly ==
    ppc = "done" =>
        LET lines == splitlines(text)
            H     == HeadingIdx(lines)
        IN  \A k \in 1..Len(parsed) :
               parsed[k].content_md = strip(join(OwnLines(lines, H, k), << "\n" >>))

-----------------------------------------------------------------------------
(* Claims about the metadata block (SpecMeta).                             *)

\* The body the last call of extract_meta was given.
MetaInput == IF calls = 1 THEN raw_entry.content_md ELSE once.content_md

IsTagsLine(line) == startswith(lower(strip(line)), << "t", "a", "g", "s", ":" >>)

IsDraftLine(line) == startswith(lower(strip(line)), << "d", "r", "a", "f", "t", ":" >>)

\* The number of lines of the leading metadata block: the lines before the
\* first line that is blank or has neither prefix.
RECURSIVE MetaBlockLen(_)
MetaBlockLen(lines) ==
    IF lines # << >> /\ (IsTagsLine(lines[1]) \/ IsDraftLine(lines[1]))
    THEN 1 + MetaBlockLen(Tail(lines))
    ELSE 0

\* What a metadata line has after its colon, trimmed.
ValueOfLine(line) ==
    LET colon == CHOOSE i \in 1..Len(line) : line[i] = ":" /\ \A j \in 1..(i - 1) : line[j] # ":"
    IN  strip(SubSeq(line, colon + 1, Len(line)))

\* The comma-separated pieces of a value, trimmed, the empty ones dropped.
PiecesOf(value) ==
    LET pieces == split(value, ",")
    IN  SelectSeq([i \in 1..Len(pieces) |-> strip(pieces[i])], LAMBDA piece : piece # << >>)

Truthy(value) ==
    lower(value) \in {<< "t", "r", "u", "e" >>, << "y", "e", "s" >>, << "1" >>, << "y" >>, << "o", "n" >>}

\* The last line of the block with the given prefix (0 when there is none).
LastInBlock(lines, IsKind(_)) ==
    LET idx == {i \in 1..MetaBlockLen(lines) : IsKind(lines[i])}
    IN  IF idx = {} THEN 0 ELSE CHOOSE i \in idx : \A j \in idx : j <= i

\* C24: extract_meta sets the tag list to the trimmed, non-empty pieces of
\* the tags: line of the leading metadata block (the last one when the block
\* has several; the empty list when it has none) and sets draft to true
\* exactly when the draft: line of the block has a truthy value; tags:/draft:
\* lines behind the line where the scan stopped have no effect.
C24_FlagsComeFromLeadingBlock ==
    calls >= 1 =>
        LET lines == splitlines(MetaInput)
            t     == LastInBlock(lines, IsTagsLine)
            d     == LastInBlock(lines, IsDraftLine)
        IN  /\ entry.tags = IF t = 0 THEN << >> ELSE PiecesOf(ValueOfLine(lines[t]))
            /\ entry.draft = (d # 0 /\ Truthy(ValueOfLine(lines[d])))

\* A body whose block is one tags: line in capitals with empty pieces, and
\* which has another tags: line behind its first line of text.
C24_Witness ==
    /\ calls = 1
    /\ splitlines(raw_entry.content_md) = << << "T", "A", "G", "S", ":", "b", ",", "," >>, << "x" >>, << "t", "a", "g", "s", ":", " ", "a", ",", " ", "B" >> >>
    /\ entry.tags = << << "b" >> >>
    /\ entry.draft = FALSE

\* C25: when the scan stops at a line, blank or text, the body is the text
\* from that line to the end of the raw body, trimmed; a blank stopping line
\* and a text stopping line are treated alike.
C25_BodyStartsAtStoppingLine ==
    calls >= 1 =>
        LET lines == splitlines(MetaInput)
            stop  == MetaBlockLen(lines) + 1
        IN  stop <= Len(lines) =>
                entry.content_md = strip(join(SubSeq(lines, stop, Len(lines)), << "\n" >>))

\* The scan stopped at a blank line behind one metadata line, with text behind.
C25_Witness ==
    /\ calls = 1
    /\ splitlines(raw_entry.content_md) = << << "d", "r", "a", "f", "t", ":", " ", "t", "r", "u", "e" >>, << >>, << "x" >> >>
    /\ entry.content_md = << "x" >>
    /\ entry.draft

\* C26: no line the scan consumed as metadata is left in the body; a raw
\* body made of metadata lines only gives the empty body.
C26_ConsumedLinesLeaveBody ==
    calls >= 1 =>
        LET lines == splitlines(MetaInput)
            n     == MetaBlockLen(lines)
        IN  entry.content_md = strip(join(SubSeq(lines, n + 1, Len(lines)), << "\n" >>))

-----------------------------------------------------------------------------
(* Claims about the links between the artifacts (Spec).                    *)

\* The writes of pages that show articles with linked tags.
LinkingWrites ==
    {i \in 1..Len(out) : "articles" \in DOMAIN out[i].content /\ out[i].path \notin
                              {TagDir \o << "/" >> \o tag_index[k].key \o HtmlExt : k \in 1..Len(tag_index)}}

\* The file written at path shows an article of the entry e with the anchor id.
ShowsEntry(path, e, id) ==
    /\ Written(path)
    /\ "articles" \in DOMAIN ContentAt(path)
    /\ \E a \in 1..Len(ContentAt(path).articles) :
          /\ ContentAt(path).articles[a].entry = e
          /\ ContentAt(path).articles[a].id = id

\* C27: in a finished run every tag link of an article on a year page, the
\* index page or the on-this-day page is tag/{slug}.html for a key slug of
\* the tag index, and the tag page written there shows the article's entry;
\* every search document's url is {page}#{date} where page is a written year
\* page that shows the document's entry under the anchor date.
C27_CrossReferencesResolve ==
    pc = "done" =>
        /\ \A i \in LinkingWrites :
              \A a \in 1..Len(out[i].content.articles) :
                 \A p \in 1..Len(out[i].content.articles[a].pills) :
                    LET pill == out[i].content.articles[a].pills[p]
                    IN  /\ \E k \in 1..Len(tag_index) :
                              pill.href = TagDir \o << "/" >> \o tag_index[k].key \o HtmlExt
                        /\ ShowsEntry(pill.href, out[i].content.articles[a].entry,
                                      out[i].content.articles[a].entry.date)
        /\ Written(SEARCH_INDEX_FILENAME) =>
              \A i \in 1..Len(SearchDocs) :
                 LET parts == split(SearchDocs[i].url, "#")
                 IN  /\ Len(parts) = 2
                     /\ parts[1] \in {entries_by_year[k].key \o HtmlExt : k \in 1..Len(entries_by_year)}
                     /\ parts[2] = SearchDocs[i].date
                     /\ ShowsEntry(parts[1], SearchDocs[i].entry, parts[2])

\* A finished run with a search index, an index page and an on-this-day page
\* whose articles carry a tag written otherwise than its slug.
C27_Witness ==
    /\ pc = "done"
    /\ Written(SEARCH_INDEX_FILENAME)
    /\ Len(SearchDocs) >= 2
    /\ Written(IndexPath)
    /\ Written(OnThisDayPath)
    /\ \E a \in 1..Len(ContentAt(OnThisDayPath).articles) :
          \E p \in 1..Len(ContentAt(OnThisDayPath).articles[a].pills) :
             LET pill == ContentAt(OnThisDayPath).articles[a].pills[p]
             IN  /\ pill.label = << "A", " ", "b" >>
                 /\ pill.href = << "t", "a", "g", "/", "a", "-", "b", ".", "h", "t", "m", "l" >>

-----------------------------------------------------------------------------
(* Claims about the tag index (Spec).                                      *)

OtherOrder == IF cfg.order = "reverse" THEN "chronological" ELSE "reverse"

\* The TagIndex of the same content tree and draft setting under the other
\* global order.
OtherTagIndex ==
    build_tag_index(collect_entries_by_year(tree, OtherOrder, cfg.include_drafts).val)

SameSlugs(a, b) == Range(dict_keys(a)) = Range(dict_keys(b))

\* C28 as stated: the TagIndex is the same for both global orders: the same
\* slugs, and for every slug the same display name and the same sequence of
\* entries.
C28_TagIndexSameForBothOrders ==
    TagIndexBuilt =>
        /\ SameSlugs(tag_index, OtherTagIndex)
        /\ \A i \in 1..Len(tag_index) :
              dict_get(OtherTagIndex, tag_index[i].key) = tag_index[i].val

\* C28 (amended): both global orders give the same slugs and, for every slug,
\* the same sequence of entries; the display names of a slug under the two
\* orders are spellings of that slug, not necessarily the same one.
C28_TagBucketsSameForBothOrders ==
    TagIndexBuilt =>
        /\ SameSlugs(tag_index, OtherTagIndex)
        /\ \A i \in 1..Len(tag_index) :
              LET other == dict_get(OtherTagIndex, tag_index[i].key)
              IN  /\ other.entries = tag_index[i].val.entries
                  /\ slugify_tag(other.name) = tag_index[i].key
                  /\ slugify_tag(tag_index[i].val.name) = tag_index[i].key

\* A bucket of three entries of two dates, from one year whose order differs
\* between the two settings, with a different display name under each.
C28_Witness ==
    /\ pc = "copy_css"
    /\ \E i \in 1..Len(tag_index) :
          LET other == dict_get(OtherTagIndex, tag_index[i].key)
              b     == tag_index[i].val.entries
          IN  /\ other.name # tag_index[i].val.name
              /\ Len(b) >= 3
              /\ b[1].year = b[Len(b)].year
              /\ dt_less(b[Len(b)]._dt, b[1]._dt)

\* No monthly file of the tree has two entries of one date.
DatesUniquePerFile ==
    \A f \in tree.files :
       LET es == parse_month_file(f.text)
       IN  \A i, j \in 1..Len(es) : es[i].date = es[j].date => i = j

\* C29: when every date is unique within its source file, the documents of
\* the search index written by a run have pairwise distinct ids.
C29_SearchIdsDistinct ==
    (pc = "done" /\ Written(SEARCH_INDEX_FILENAME) /\ DatesUniquePerFile) =>
        \A i, j \in 1..Len(SearchDocs) : SearchDocs[i].id = SearchDocs[j].id => i = j

\* C30: a surviving entry occurs in a TagIndex bucket no more often than it
\* occurs in the YearIndex, that is once, also when it lists several tags of
\* one slug; the count of a tag on tags.html is then the number of distinct
\* entries that carry the slug.
C30_EntryOncePerBucket ==
    TagIndexBuilt =>
        \A i \in 1..Len(tag_index) :
           \A e \in Range(tag_index[i].val.entries) :
              Count(tag_index[i].val.entries, e) <= Count(IndexedEntries, e)

====
